---- MODULE Spec2Model ----
(***************************************************************************)
(* A model of the BlitzMail notification components (notify/ntypes.py,     *)
(* notify/notifyd.py, notify/packet.py) and of the mail session sign-on    *)
(* (session.py).                                                           *)
(*                                                                         *)
(* The specifications of this module share its variables:                  *)
(*   Spec     - the notification server: the TCP control handler, the UDP  *)
(*              server's request/response/release handlers, the writer's   *)
(*              loop body and the sticky store, one action per handler.    *)
(*   SpecTCP  - the control connections alone, with every error reply.     *)
(*   SpecATP  - the transport's two threads (reader, writer), stop() and   *)
(*              the passage of time, one action per blocking point;        *)
(*              FairSpecATP adds the scheduling of the threads.            *)
(*   SpecDB   - the sticky store alone with a log of the calls made.       *)
(*   SpecMail - BlitzSession.sign_on and reconnect against a server that   *)
(*              may answer anything.                                       *)
(* Time is kept in seconds.  A queue element stores the seconds elapsed    *)
(* since its creation (age) and since its last use (idle) instead of the   *)
(* two absolute stamps _orig and _time of the code.                        *)
(***************************************************************************)
EXTENDS Integers, Sequences, FiniteSets, TLC

\* ---------------------------------------------------------------- bounds
TickSeconds == 400      \* seconds that pass in one step of the server's clock
MaxTicks == 2           \* steps of the server's clock
MaxEnq == 3             \* queue elements ever created in one run
MaxRows == 2            \* rows in the sticky store
MaxClients == 2         \* entries in the client table
MaxSteps == 5          \* steps of one run of the server
MaxOps == 4             \* calls logged by the sticky-store specification
AtpTick == 150          \* seconds that pass in one step of the transport's clock
MaxQ == 2               \* queue length at which the reader's peer stops sending requests
MaxSent == 5            \* commands a session writes between two reconnects
MaxOut == 2             \* lines of a multi-line payload that are counted
MaxWire == 3            \* items of an answer the server may have written when it closes
BlockSize == 2          \* bytes of a sized block
MaxId == 4              \* the highest article id of a bulletin topic

\* ------------------------------------------------------ program constants
RETRANS == 20
ATP_MAXAGE == 300
SRV_MAXAGE == 600
TID_MOD == 65536
None == 0 - 1

Conns == {1, 2}
SrvConns == {1}
ClientUids == {7, 8}
NoticeUids == {0, 7}
Types == {1, 2}
Msgids == {100}
Lengths == {2}
Ports == {1, 2}
SvcSets == {{1}, {1, 2}}
TheIp == 10

VARIABLES
    rqueue,      \* ATPObject._rqueue: requests and responses awaiting (re)transmission
    lqueue,      \* ATPObject._lqueue: releases to transmit
    tid,         \* ATPObject.tid: next transaction id
    nreq,        \* number of queue elements created so far (serial numbers)
    clients,     \* NotifyUDPServer._clients
    store,       \* rows of the notices table (NoticeDB)
    now,         \* time.time() of the server
    adm,         \* NotifyTCPServer.adm
    auth,        \* NotifyTCPServer.auth
    h_open,      \* per connection: handle() is in its loop
    h_dnd,       \* per connection: NotifyTCPHandler.dnd / resp (uid being validated)
    ev,          \* the operation performed by the last step, with its inputs and reply
    r_pc,        \* the reader thread (_receiver): where it is
    w_pc,        \* the writer thread (_sender): where it is
    sleep_time,  \* the writer's sleep_time: None or the seconds left of its timed wait
    notified,    \* the writer was notified on _cdc while waiting
    cdown,       \* ATPObject._cdown
    sock,        \* ATPObject._socket: "none", "open", "closed"
    stop_pc,     \* the caller of stop(): where it is
    hist,        \* the calls made on the sticky store (SpecDB)
    inprog,      \* per connection: a USER was answered 300 and no PASE/PASS came since
    m_pc,        \* BlitzSession: where the sign-on is (SpecMail)
    m_conn,      \* BlitzSession.is_connected()
    m_sent,      \* the commands written to the mail server since sign_on
    m_exc,       \* the exception the last call raised, <<>> if none
    m_warn,      \* BlitzSession.warn_flag
    m_push,      \* the push_off argument of the sign-on in progress
    m_input,     \* Session._input is not None
    m_saddr,     \* Session._saddr is not None
    s_kind,      \* the class of the session object: "mail" or "bull" (SpecSess)
    wire,        \* what the server wrote and the session has not read yet
    peer,        \* the server's end of the connection: "up", "eof" or "reset"
    s_op,        \* the operation in progress on the session, and where it is
    fl_cache,    \* BlitzSession.fl_cache: None or the ids of the folders listed (SpecFold)
    f_obj,       \* the BlitzFolder object held for each folder id
    f_srv,       \* the folders on the mail server
    l_cache,     \* BlitzSession.pl_cache and gl_cache, by kind of list (SpecList)
    l_srv,       \* the names of the lists on the mail server, by kind
    summ,        \* a BlitzSummary: whether it was built, and its expires (SpecSumm)
    srv_expires, \* the expiration the mail server stores for that message
    topic,       \* a bulletin Topic: its _rcache, id_low and _loaded (SpecTopic)
    bull,        \* what the bulletin server keeps for the topic
    g_select,    \* BulletinSession.g_select: the name last sent with GROUP (SpecGroup)
    nqueue,      \* NotifyClient._nqueue: the notifications received and not yet taken (SpecNote)
    b_cache,     \* BlitzSummary.b_cache: <<>> for None, or <<offset, data>> (SpecBody)
    s_length,    \* BlitzSummary.length
    srv_body,    \* the body of that message on the mail server
    b_out,       \* what the last get_body returned
    th,          \* the call each server thread is in, and the mutex operation it is at (SpecLock)
    mutex        \* the holder of each mutex of the server, or "free"

queues == <<rqueue, lqueue, tid, nreq>>
srvvars == <<clients, store, now, adm, auth, h_open, h_dnd>>
atpvars == <<r_pc, w_pc, sleep_time, notified, cdown, sock, stop_pc>>
vars == <<rqueue, lqueue, tid, nreq, clients, store, now, adm, auth, h_open, h_dnd, ev,
          r_pc, w_pc, sleep_time, notified, cdown, sock, stop_pc, hist, inprog,
          m_pc, m_conn, m_sent, m_exc, m_warn, m_push, m_input, m_saddr,
          s_kind, wire, peer, s_op, fl_cache, f_obj, f_srv,
          l_cache, l_srv, summ, srv_expires, topic, bull, g_select,
          nqueue, b_cache, s_length, srv_body, b_out, th, mutex>>
mailvars == <<m_pc, m_conn, m_sent, m_exc, m_warn, m_push, m_input, m_saddr>>
sessvars == <<s_kind, wire, peer, s_op>>
foldvars == <<fl_cache, f_obj, f_srv>>
listvars == <<l_cache, l_srv>>
summvars == <<summ, srv_expires>>
topicvars == <<topic, bull>>
groupvars == <<g_select>>
notevars == <<nqueue>>
bodyvars == <<b_cache, s_length, srv_body, b_out>>
clientvars == <<sessvars, foldvars, listvars, summvars, topicvars, groupvars, notevars, bodyvars>>
lockvars == <<th, mutex>>

\* ------------------------------------------------------------- utilities
Min(a, b) == IF a < b THEN a ELSE b
Max(a, b) == IF a > b THEN a ELSE b

RECURSIVE SeqSum(_)
SeqSum(s) == IF s = <<>> THEN 0 ELSE Head(s) + SeqSum(Tail(s))

\* ------------------------------------------------ queue elements (ntypes)
IdleCap == RETRANS + TickSeconds

\* QElem.__init__: _orig = now, _time = 1 (an instant long past); fresh
\* tells that _time still has this initial value
QElem(ser, kind, udata, t, pdata, addr) ==
    [ser |-> ser, kind |-> kind, udata |-> udata, tid |-> t,
     pdata |-> pdata, addr |-> addr, age |-> 0, idle |-> IdleCap, fresh |-> TRUE]

\* QElem.is_due(clk, ival): clk - ival > _time
is_due(elt, ival) == elt.idle > ival

\* QElem.touch
touch(elt) == [elt EXCEPT !.idle = 0, !.fresh = FALSE]

\* Release.__init__: same tid and address as the element released
Release(elt) == [tid |-> elt.tid, addr |-> elt.addr, udata |-> elt.udata]

\* the passage of d seconds as seen by one element
Older(elt, d, cap) ==
    [elt EXCEPT !.age = Min(elt.age + d, cap),
                !.idle = Min(elt.idle + d, IdleCap)]

\* _addreq without the advance of the counter
addreq_sametid(st, udata, pdata, addr) ==
    [rqueue |-> Append(st.rqueue,
                       QElem(st.nreq + 1, "req", udata, st.tid, pdata, addr)),
     tid |-> st.tid,
     nreq |-> st.nreq + 1]

\* ATPObject._addreq on the transport state st = [rqueue, tid, nreq]
addreq(st, udata, pdata, addr) ==
    [rqueue |-> Append(st.rqueue,
                       QElem(st.nreq + 1, "req", udata, st.tid, pdata, addr)),
     tid |-> (st.tid + 1) % TID_MOD,
     nreq |-> st.nreq + 1]

\* positions of the queue whose element satisfies tid = t
DeadByTid(q, t) == {pos \in 1..Len(q) : q[pos].tid = t}

RECURSIVE PopAll(_, _, _)
\* "for pos in reversed(dead): q.pop(pos)"
PopAll(q, dead, pos) ==
    IF pos = 0 THEN q
    ELSE IF pos \in dead
         THEN PopAll(SubSeq(q, 1, pos - 1) \o SubSeq(q, pos + 1, Len(q)), dead, pos - 1)
         ELSE PopAll(q, dead, pos - 1)

Pop(q, dead) == PopAll(q, dead, Len(q))

\* ------------------------------------------------------ clients (notifyd)
Client(uid, ip, port, svcs) ==
    [uid |-> uid, ip |-> ip, port |-> port, svcs |-> svcs, smark |-> 0, rmark |-> 0]

client_addr(c) == <<c.ip, c.port>>
sendmark(c, clk) == [c EXCEPT !.smark = clk]
recvmark(c, clk) == [c EXCEPT !.rmark = clk]

\* Client.age
client_age(c, clk) == IF c.smark >= c.rmark THEN clk - c.rmark ELSE 0

\* Client.__eq__
client_eq(a, b) == a.uid = b.uid /\ a.ip = b.ip /\ a.port = b.port

\* list.index(new_client): first position equal to it, 0 when absent
client_index(cl, c) ==
    IF \E i \in 1..Len(cl) : client_eq(cl[i], c)
    THEN CHOOSE i \in 1..Len(cl) :
            client_eq(cl[i], c) /\ \A j \in 1..(i - 1) : ~client_eq(cl[j], c)
    ELSE 0

\* ------------------------------------------------- sticky store (NoticeDB)
Row(uid, type, msgid, data, rowid) ==
    [uid |-> uid, type |-> type, msgid |-> msgid, data |-> data, rowid |-> rowid]

NextRowid(rows) ==
    IF rows = <<>> THEN 1
    ELSE 1 + (CHOOSE m \in {rows[i].rowid : i \in 1..Len(rows)} :
                 \A i \in 1..Len(rows) : rows[i].rowid <= m)

\* NoticeDB.enter
enter(rows, uid, type, msgid, data) ==
    Append(rows, Row(uid, type, msgid, data, NextRowid(rows)))

\* a delete that matches on the uid alone
cleartype_uid(rows, uid, type) == SelectSeq(rows, LAMBDA r : r.uid # uid)

\* NoticeDB.cleartype: DELETE ... WHERE uid == ? AND type == ?
cleartype(rows, uid, type) ==
    SelectSeq(rows, LAMBDA r : ~(r.uid = uid /\ r.type = type))

\* NoticeDB.flush
flush(rows) == <<>>

\* NoticeDB.notices
notices(rows) == rows

\* -------------------------------------- NotifyUDPServer handlers (notifyd)
Notice(uid, type, msgid, sticky, data) ==
    [uid |-> uid, type |-> type, msgid |-> msgid, sticky |-> sticky, data |-> data]

\* the packet data of a Notify request: make_notify_req(svc, who, msgid, data)
NotifyData(n) == <<n.type, n.uid, n.msgid, n.data>>

\* the test of send_sticky and post
Matches(notice, client) == notice.uid \in {0, client.uid} /\ notice.type \in client.svcs

RECURSIVE send_sticky(_, _, _, _, _)
\* NotifyUDPServer.send_sticky: the loop over db.notices(), from row i on
send_sticky(st, client, rows, i, clk) ==
    IF i > Len(rows) THEN [atp |-> st, client |-> client]
    ELSE IF Matches(rows[i], client)
         THEN send_sticky(addreq(st, "NOTI", NotifyData(rows[i]), client_addr(client)),
                          sendmark(client, clk), rows, i + 1, clk)
         ELSE send_sticky(st, client, rows, i + 1, clk)

\* add_client without the lookup of an equal entry
add_client_append(cl, st, rows, uid, ip, port, svcs, clk) ==
    LET new_client == recvmark(sendmark(Client(uid, ip, port, svcs), clk), clk)
        cl1 == Append(cl, new_client)
        r == send_sticky(st, new_client, notices(rows), 1, clk)
    IN [clients |-> [cl1 EXCEPT ![Len(cl1)] = r.client], atp |-> r.atp]

\* NotifyUDPServer.add_client
add_client(cl, st, rows, uid, ip, port, svcs, clk) ==
    LET new_client == recvmark(sendmark(Client(uid, ip, port, svcs), clk), clk)
        pos == client_index(cl, new_client)
        cl1 == IF pos # 0 THEN [cl EXCEPT ![pos] = recvmark(cl[pos], clk)]
               ELSE Append(cl, new_client)
        p == IF pos # 0 THEN pos ELSE Len(cl1)
        r == send_sticky(st, cl1[p], notices(rows), 1, clk)
    IN [clients |-> [cl1 EXCEPT ![p] = r.client], atp |-> r.atp]

RECURSIVE post_nomark(_, _, _, _, _)
\* a fan-out that forgets the send mark of the clients it addresses
post_nomark(cl, st, notice, i, clk) ==
    IF i > Len(cl) THEN [clients |-> cl, atp |-> st]
    ELSE IF Matches(notice, cl[i])
         THEN post_nomark(cl, addreq(st, "NOTI", NotifyData(notice), client_addr(cl[i])),
                          notice, i + 1, clk)
         ELSE post_nomark(cl, st, notice, i + 1, clk)

RECURSIVE post(_, _, _, _, _)
\* NotifyUDPServer.post: the loop over the client table, from entry i on
post(cl, st, notice, i, clk) ==
    IF i > Len(cl) THEN [clients |-> cl, atp |-> st]
    ELSE IF Matches(notice, cl[i])
         THEN post([cl EXCEPT ![i] = sendmark(cl[i], clk)],
                   addreq(st, "NOTI", NotifyData(notice), client_addr(cl[i])),
                   notice, i + 1, clk)
         ELSE post(cl, st, notice, i + 1, clk)

\* NotifyUDPServer.update
update(cl, ip, port, clk) ==
    [i \in 1..Len(cl) |->
        IF cl[i].ip = ip /\ cl[i].port = port THEN recvmark(cl[i], clk) ELSE cl[i]]

\* a reaper that goes by the time since the last receive mark alone
write_poll_rmark(cl, clk, maxage) ==
    Pop(cl, {pos \in 1..Len(cl) : clk - cl[pos].rmark > maxage})

\* NotifyUDPServer.write_poll
write_poll(cl, clk, maxage) ==
    Pop(cl, {pos \in 1..Len(cl) : client_age(cl[pos], clk) > maxage})

\* NotifyUDPServer.clear_sticky / NotifyTCPServer.clear
clear_sticky(rows, uid, service) == cleartype(rows, uid, service)

\* NotifyTCPServer.check_perms
check_perms(operation, a, admin) ==
    IF operation \notin {"list", "broadcast"} THEN TRUE
    ELSE admin # None /\ a = admin

\* a notify that stores every notice, sticky or not
notify_always(rows, cl, st, uid, type, msgid, sticky, data, clk) ==
    LET r == post(cl, st, Notice(uid, type, msgid, sticky, data), 1, clk)
    IN [store |-> enter(rows, uid, type, msgid, data), clients |-> r.clients, atp |-> r.atp]

\* NotifyTCPServer.notify
notify(rows, cl, st, uid, type, msgid, sticky, data, clk) ==
    LET rows1 == IF sticky THEN enter(rows, uid, type, msgid, data) ELSE rows
        r == post(cl, st, Notice(uid, type, msgid, sticky, data), 1, clk)
    IN [store |-> rows1, clients |-> r.clients, atp |-> r.atp]

\* ------------------------------------------- the writer's pass (ntypes)
\* a pass that transmits only the newest of the elements that are due
sender_pass_newest(q, lq, maxage) ==
    LET dead == {pos \in 1..Len(q) : q[pos].age > maxage}
        alldue == {pos \in 1..Len(q) : pos \notin dead /\ is_due(q[pos], RETRANS)}
        due == {pos \in alldue : \A other \in alldue : other <= pos}
        q1 == [pos \in 1..Len(q) |-> IF pos \in due THEN touch(q[pos]) ELSE q[pos]]
        q2 == Pop(q1, dead)
        oldest == CHOOSE m \in {q2[pos].idle : pos \in 1..Len(q2)} :
                     \A pos \in 1..Len(q2) : q2[pos].idle <= m
    IN [rqueue |-> q2,
        lqueue |-> <<>>,
        sent |-> SelectSeq(q, LAMBDA e : \E pos \in due : q[pos] = e),
        released |-> lq,
        sleep_time |-> IF Len(q2) = 0 THEN None ELSE RETRANS - oldest]

\* ATPObject._sender, the part under the queue mutex: returns the queue after
\* the pass, the elements transmitted and the time to sleep (None: no timeout)
sender_pass(q, lq, maxage) ==
    LET dead == {pos \in 1..Len(q) : q[pos].age > maxage}
        due == {pos \in 1..Len(q) : pos \notin dead /\ is_due(q[pos], RETRANS)}
        q1 == [pos \in 1..Len(q) |-> IF pos \in due THEN touch(q[pos]) ELSE q[pos]]
        q2 == Pop(q1, dead)
        \* now - min(elt.when() for elt in q2)
        oldest == CHOOSE m \in {q2[pos].idle : pos \in 1..Len(q2)} :
                     \A pos \in 1..Len(q2) : q2[pos].idle <= m
    IN [rqueue |-> q2,
        lqueue |-> <<>>,
        sent |-> SelectSeq(q, LAMBDA e : e.age <= maxage /\ is_due(e, RETRANS)),
        released |-> lq,
        sleep_time |-> IF Len(q2) = 0 THEN None ELSE RETRANS - oldest]

\* ------------------------------------------------ the server: Init, events
Ev(op, c, reply, seq, arg) ==
    [op |-> op, c |-> c, reply |-> reply, seq |-> seq, arg |-> arg, n |-> 0]

\* the step is taken and recorded (at most MaxSteps steps in one run)
Step(op, c, reply, seq, arg) ==
    /\ ev.n < MaxSteps
    /\ ev' = [Ev(op, c, reply, seq, arg) EXCEPT !.n = ev.n + 1]
    /\ inprog' = IF op = "USER" /\ reply = 300 THEN [inprog EXCEPT ![c] = TRUE]
                 ELSE IF op \in {"PASE", "PASS", "connect"} \/ reply = 503
                      THEN [inprog EXCEPT ![c] = FALSE]
                      ELSE inprog
    /\ UNCHANGED <<atpvars, hist, mailvars, clientvars, lockvars>>

atp == [rqueue |-> rqueue, tid |-> tid, nreq |-> nreq]

\* the state after construction of the servers, the store and the session;
\* admins: the values the -a option may have given to NotifyTCPServer.adm
\* no operation is in progress on the session
Idle == [name |-> "none", pc |-> "idle", size |-> 0]

\* the seconds from 1904-01-01 to 1970-01-01, negated: unix = server + time_offset
time_offset == -2082826800

\* g_select when it is None (no topic has this name)
NoTopic == "None"

\* the two kinds of mailing list
list_private == 1
list_group == 2

\* the folders of a mailbox: the trash, which is always there, and two more
TRASH == 1
FolderIds == {TRASH, 2, 3}
\* fl_cache when it is None (its other values are sets of folder ids)
NoCache == {None}

InitAll(admins, kind) ==
    /\ rqueue = <<>>
    /\ lqueue = <<>>
    /\ tid = TID_MOD - 1
    /\ nreq = 0
    /\ clients = <<>>
    /\ store = <<>>
    /\ now = 0
    /\ adm \in admins
    /\ auth = None
    /\ h_open = [c \in Conns |-> FALSE]
    /\ h_dnd = [c \in Conns |-> None]
    /\ ev = Ev("init", 0, 0, FALSE, <<>>)
    /\ r_pc = "none"
    /\ w_pc = "none"
    /\ sleep_time = None
    /\ notified = FALSE
    /\ cdown = FALSE
    /\ sock = "none"
    /\ stop_pc = "idle"
    /\ hist = <<>>
    /\ inprog = [c \in Conns |-> FALSE]
    /\ m_pc = "idle"
    /\ m_conn = FALSE
    /\ m_sent = <<>>
    /\ m_exc = <<>>
    /\ m_warn = FALSE
    /\ m_push = "false"
    /\ m_input = FALSE
    /\ m_saddr = FALSE
    /\ s_kind = kind
    /\ wire = <<>>
    /\ peer = "up"
    /\ s_op = Idle
    /\ fl_cache = NoCache
    /\ f_obj = [id \in FolderIds |-> [held |-> FALSE, need_rl |-> FALSE, name |-> "", count |-> 0]]
    /\ f_srv = [id \in FolderIds |->
                  [live |-> id = TRASH, name |-> IF id = TRASH THEN "trash" ELSE "n0", count |-> 0]]
    /\ l_cache = [k \in {list_private, list_group} |-> [none |-> TRUE, d |-> {}]]
    /\ l_srv = [k \in {list_private, list_group} |-> {}]
    /\ summ = [built |-> FALSE, expires |-> 0]
    /\ srv_expires = 0 - time_offset
    /\ topic = [rcache |-> {}, id_low |-> None, id_high |-> None, loaded |-> FALSE]
    /\ bull = [id_low |-> 1, id_high |-> 2, read |-> <<<<0, 0>>>>]
    /\ g_select = NoTopic
    /\ nqueue = <<>>
    /\ b_cache = <<>>
    /\ s_length = None
    /\ srv_body = <<>>
    /\ b_out = <<>>
    /\ th = [t \in {"reader", "writer", "handler", "main"} |-> [call |-> "none", at |-> 0]]
    /\ mutex = [m \in {"_rqm", "_som", "_clm", "_cdc"} |-> "free"]

\* the server with its control session a mail session
InitWith(admins) == InitAll(admins, "mail")

Init == InitWith({7})

\* ------------------------------------- NotifyTCPHandler (notifyd.py 100-377)
\* handle(): a connection is accepted, the banner written, quit/dnd/resp reset
Connect(c) ==
    /\ ~h_open[c]
    /\ h_open' = [h_open EXCEPT ![c] = TRUE]
    /\ h_dnd' = [h_dnd EXCEPT ![c] = None]
    /\ Step("connect", c, 220, FALSE, <<>>)
    /\ UNCHANGED <<rqueue, lqueue, tid, nreq, clients, store, now, adm, auth>>

\* handle(): the peer goes away, the loop ends on socket.error
Hangup(c) ==
    /\ h_open[c]
    /\ h_open' = [h_open EXCEPT ![c] = FALSE]
    /\ Step("hangup", c, 0, FALSE, <<>>)
    /\ UNCHANGED <<rqueue, lqueue, tid, nreq, clients, store, now, adm, auth, h_dnd>>

\* a sequencing test that lets NOOP through
bad_sequence_noop(cmd, d) == cmd \notin {"PASS", "PASE", "NOOP"} /\ d # None

\* handle(): the test made on every command line before dispatch
bad_sequence(cmd, d) == cmd \notin {"PASS", "PASE"} /\ d # None

\* handle(): one command line, rejected with 503 or dispatched to body
Line(c, cmd, arg, body) ==
    /\ h_open[c]
    /\ IF bad_sequence(cmd, h_dnd[c])
       THEN /\ h_dnd' = [h_dnd EXCEPT ![c] = None]
            /\ Step(cmd, c, 503, TRUE, <<>>)
            /\ UNCHANGED <<rqueue, lqueue, tid, nreq, clients, store, now, adm, auth, h_open>>
       ELSE body

\* a handler that only writes a reply
ReplyOnly(c, cmd, arg, code) ==
    /\ Step(cmd, c, code, FALSE, IF cmd = "NOTIFY" THEN arg ELSE <<>>)
    /\ UNCHANGED <<rqueue, lqueue, tid, nreq, clients, store, now, adm, auth, h_open, h_dnd>>

cmd_unknown(c) == Line(c, "XYZZY", <<>>, ReplyOnly(c, "XYZZY", <<>>, 500))

cmd_QUIT(c) ==
    Line(c, "QUIT", <<>>,
         /\ h_open' = [h_open EXCEPT ![c] = FALSE]
         /\ auth' = None
         /\ Step("QUIT", c, 221, FALSE, <<>>)
         /\ UNCHANGED <<rqueue, lqueue, tid, nreq, clients, store, now, adm, h_dnd>>)

cmd_NOOP(c) == Line(c, "NOOP", <<>>, ReplyOnly(c, "NOOP", <<>>, 200))

\* wf: the line has the right number of arguments and they are integers
cmd_CLEAR(c, wf, uid, type) ==
    LET arg == <<wf, uid, type>> IN
    Line(c, "CLEAR", arg,
         IF ~wf THEN ReplyOnly(c, "CLEAR", arg, 501)
         ELSE IF uid = 0 /\ ~check_perms("broadcast", auth, adm)
         THEN ReplyOnly(c, "CLEAR", arg, 554)
         ELSE /\ store' = cleartype(store, uid, type)
              /\ Step("CLEAR", c, 200, FALSE, arg)
              /\ UNCHANGED <<rqueue, lqueue, tid, nreq, clients, now, adm, auth, h_open, h_dnd>>)

\* length > 0: data bytes follow the line, else data is None (0)
cmd_NOTIFY(c, wf, length, uid, type, msgid, sticky) ==
    LET arg == <<wf, length, uid, type, msgid, sticky>>
        data == IF length > 0 THEN length ELSE 0
        r == notify(store, clients, atp, uid, type, msgid, sticky # 0, data, now)
    IN
    Line(c, "NOTIFY", arg,
         IF ~wf THEN ReplyOnly(c, "NOTIFY", arg, 501)
         ELSE IF uid = 0 /\ ~check_perms("broadcast", auth, adm)
         THEN ReplyOnly(c, "NOTIFY", arg, 554)
         ELSE /\ Len(r.store) <= MaxRows
              /\ r.atp.nreq <= MaxEnq
              /\ store' = r.store
              /\ clients' = r.clients
              /\ rqueue' = r.atp.rqueue
              /\ tid' = r.atp.tid
              /\ nreq' = r.atp.nreq
              /\ Step("NOTIFY", c, 200, FALSE, arg)
              /\ UNCHANGED <<lqueue, now, adm, auth, h_open, h_dnd>>)

\* outcome: what the name directory does with the USER request
cmd_USER(c, wf, user, outcome) ==
    LET arg == <<wf, user, outcome>> IN
    Line(c, "USER", arg,
         IF ~wf THEN ReplyOnly(c, "USER", arg, 501)
         ELSE IF outcome = "unavailable" THEN ReplyOnly(c, "USER", arg, 450)
         ELSE IF outcome = "unknown" THEN ReplyOnly(c, "USER", arg, 550)
         ELSE /\ h_dnd' = [h_dnd EXCEPT ![c] = user]
              /\ Step("USER", c, 300, FALSE, <<>>)
              /\ UNCHANGED <<rqueue, lqueue, tid, nreq, clients, store, now, adm, auth, h_open>>)

\* cmd_PASE and cmd_PASS: wf is the argument test, pwok the directory's verdict.
\* Without a validation in progress resp is None: the subscript fails and the
\* finally clause fails again on None.close(), which ends the handler.
cmd_PASx(c, cmd, wf, pwok) ==
    LET arg == <<wf, pwok>> IN
    Line(c, cmd, arg,
         IF h_dnd[c] = None
         THEN /\ h_open' = [h_open EXCEPT ![c] = FALSE]
              /\ Step(cmd, c, IF wf THEN 0 ELSE 501, FALSE, <<>>)
              /\ UNCHANGED <<rqueue, lqueue, tid, nreq, clients, store, now, adm, auth, h_dnd>>
         ELSE /\ h_dnd' = [h_dnd EXCEPT ![c] = None]
              /\ auth' = IF wf /\ pwok THEN h_dnd[c] ELSE auth
              /\ Step(cmd, c, IF ~wf THEN 501 ELSE IF pwok THEN 200 ELSE 551, FALSE, <<>>)
              /\ UNCHANGED <<rqueue, lqueue, tid, nreq, clients, store, now, adm, h_open>>)

cmd_PASE(c, wf, pwok) == cmd_PASx(c, "PASE", wf, pwok)

cmd_PASS(c, wf, pwok) == cmd_PASx(c, "PASS", wf, pwok)

cmd_CLIENT(c, wf, uid, port, svcs) ==
    LET arg == <<wf, uid, port, svcs>>
        r == add_client(clients, atp, store, uid, TheIp, port, svcs, now)
    IN
    Line(c, "CLIENT", arg,
         IF ~check_perms("client", auth, adm) THEN ReplyOnly(c, "CLIENT", arg, 554)
         ELSE IF ~wf THEN ReplyOnly(c, "CLIENT", arg, 501)
         ELSE /\ Len(r.clients) <= MaxClients
              /\ r.atp.nreq <= MaxEnq
              /\ clients' = r.clients
              /\ rqueue' = r.atp.rqueue
              /\ tid' = r.atp.tid
              /\ nreq' = r.atp.nreq
              /\ Step("CLIENT", c, 200, FALSE, arg)
              /\ UNCHANGED <<lqueue, store, now, adm, auth, h_open, h_dnd>>)

cmd_LIST(c, wf) ==
    LET arg == <<wf>> IN
    Line(c, "LIST", arg,
         IF ~check_perms("list", auth, adm) THEN ReplyOnly(c, "LIST", arg, 554)
         ELSE IF ~wf THEN ReplyOnly(c, "LIST", arg, 501)
         ELSE ReplyOnly(c, "LIST", arg, 200))

\* --------------------------- ATPObject._receiver dispatch (ntypes 326-404)
PeerTids == {9}

\* Response.__init__ from the tuple built by the req branch
Response(ser, t, udata, pdata, sndr) == QElem(ser, "rsp", udata, t, pdata, sndr)

\* the req branch after a truthy do_req: queue a response for the sender
enqueue_response(st, t, udata, sndr) ==
    [rqueue |-> Append(st.rqueue, Response(st.nreq + 1, t, udata, <<>>, sndr)),
     tid |-> st.tid,
     nreq |-> st.nreq + 1]

\* the rsp branch: returns the queues and the element handed to do_rsp
dispatch_rsp(q, lq, t) ==
    LET dead == DeadByTid(q, t)
        first == CHOOSE pos \in dead : \A other \in dead : pos <= other
    IN IF dead = {} THEN [rqueue |-> q, lqueue |-> lq, tobj |-> <<>>]
       ELSE [rqueue |-> Pop(q, dead),
             lqueue |-> Append(lq, Release(q[first])),
             tobj |-> <<q[first]>>]

RECURSIVE update_all(_, _, _)
\* do_rel called for every element of elts: update(ip, port) for each
update_all(cl, elts, clk) ==
    IF elts = <<>> THEN cl
    ELSE update_all(update(cl, Head(elts).addr[1], Head(elts).addr[2], clk), Tail(elts), clk)

\* the rel branch
dispatch_rel(q, t) ==
    [rqueue |-> Pop(q, DeadByTid(q, t)),
     released |-> SelectSeq(q, LAMBDA e : e.tid = t)]

\* do_req, udata = "NR02": register the sender and replay the sticky notices
RecvNR02(t, uid, port, svcs, sport) ==
    LET rport == IF port = 0 THEN sport ELSE port
        r == add_client(clients, atp, store, uid, TheIp, rport, svcs, now)
        st == enqueue_response(r.atp, t, "NR02", <<TheIp, sport>>)
    IN /\ Len(r.clients) <= MaxClients
       /\ st.nreq <= MaxEnq
       /\ clients' = r.clients
       /\ rqueue' = st.rqueue
       /\ tid' = st.tid
       /\ nreq' = st.nreq
       /\ Step("NR02", 0, 0, FALSE, <<uid, rport, svcs, sport>>)
       /\ UNCHANGED <<lqueue, store, now, adm, auth, h_open, h_dnd>>

\* do_req, udata = "CLEN": clear sticky notices
RecvCLEN(t, uid, service, sport) ==
    LET st == enqueue_response(atp, t, "CLEN", <<TheIp, sport>>)
    IN /\ st.nreq <= MaxEnq
       /\ store' = clear_sticky(store, uid, service)
       /\ rqueue' = st.rqueue
       /\ nreq' = st.nreq
       /\ Step("CLEN", 0, 0, FALSE, <<uid, service>>)
       /\ UNCHANGED <<lqueue, tid, clients, now, adm, auth, h_open, h_dnd>>

\* do_req, any other udata: ignored, no response
RecvOtherReq(t) ==
    /\ Step("req", 0, 0, FALSE, <<>>)
    /\ UNCHANGED <<rqueue, lqueue, tid, nreq, clients, store, now, adm, auth, h_open, h_dnd>>

\* a rsp packet with transaction id t; do_rsp marks the addressee of the request
RecvRsp(t) ==
    LET r == dispatch_rsp(rqueue, lqueue, t)
    IN /\ rqueue' = r.rqueue
       /\ lqueue' = r.lqueue
       /\ clients' = update_all(clients, r.tobj, now)
       /\ Step("rsp", 0, 0, FALSE, <<t>>)
       /\ UNCHANGED <<tid, nreq, store, now, adm, auth, h_open, h_dnd>>

\* a rel packet with transaction id t; do_rel marks the addressee of each element
RecvRel(t) ==
    LET r == dispatch_rel(rqueue, t)
    IN /\ rqueue' = r.rqueue
       /\ clients' = update_all(clients, r.released, now)
       /\ Step("rel", 0, 0, FALSE, <<t>>)
       /\ UNCHANGED <<lqueue, tid, nreq, store, now, adm, auth, h_open, h_dnd>>

\* the transaction ids a peer may answer: those queued, and one that is not
AnswerTids == {rqueue[pos].tid : pos \in 1..Len(rqueue)} \cup {9}

\* ---------------------------------- ATPObject._sender, one turn of its loop
WriterLoop ==
    LET r == sender_pass(rqueue, lqueue, SRV_MAXAGE)
    IN /\ rqueue' = r.rqueue
       /\ lqueue' = r.lqueue
       /\ clients' = write_poll(clients, now, SRV_MAXAGE)
       /\ Step("writer", 0, 0, FALSE, <<Len(clients)>>)
       /\ UNCHANGED <<tid, nreq, store, now, adm, auth, h_open, h_dnd>>

\* time passes
Tick ==
    /\ now < MaxTicks * TickSeconds
    /\ now' = now + TickSeconds
    /\ rqueue' = [pos \in 1..Len(rqueue) |-> Older(rqueue[pos], TickSeconds, SRV_MAXAGE + TickSeconds)]
    /\ Step("tick", 0, 0, FALSE, <<>>)
    /\ UNCHANGED <<lqueue, tid, nreq, clients, store, adm, auth, h_open, h_dnd>>

\* NoticeDB.flush called on the store
DbFlush ==
    /\ store # <<>>
    /\ store' = flush(store)
    /\ Step("flush", 0, 0, FALSE, <<>>)
    /\ UNCHANGED <<rqueue, lqueue, tid, nreq, clients, now, adm, auth, h_open, h_dnd>>

\* The server with well-formed control commands and a directory that accepts
\* the administrator; the error replies of the handler are in NextTCP.
Next ==
    /\ ev.n < MaxSteps
    /\ \/ \E c \in SrvConns : Connect(c)
       \/ \E c \in SrvConns : cmd_USER(c, TRUE, 7, "ok")
       \/ \E c \in SrvConns : cmd_PASE(c, TRUE, TRUE)
       \/ \E c \in SrvConns, uid \in NoticeUids, type \in Types : cmd_CLEAR(c, TRUE, uid, type)
       \/ \E c \in SrvConns, length \in Lengths, uid \in NoticeUids,
             type \in Types, msgid \in Msgids, sticky \in {0, 2} :
             cmd_NOTIFY(c, TRUE, length, uid, type, msgid, sticky)
       \/ \E c \in SrvConns, uid \in ClientUids, svcs \in SvcSets :
             cmd_CLIENT(c, TRUE, uid, 1, svcs)
       \/ \E t \in PeerTids, uid \in ClientUids, ports \in {<<0, 2>>, <<1, 1>>}, svcs \in SvcSets :
             RecvNR02(t, uid, ports[1], svcs, ports[2])
       \/ \E t \in PeerTids, uid \in NoticeUids, service \in Types :
             RecvCLEN(t, uid, service, 1)
       \/ \E t \in PeerTids : RecvOtherReq(t)
       \/ \E t \in AnswerTids : RecvRsp(t)
       \/ \E t \in AnswerTids : RecvRel(t)
       \/ WriterLoop
       \/ Tick
       \/ DbFlush

Spec == Init /\ [][Next]_vars

\* The control connections alone, with every reply of the handler: malformed
\* lines, a directory that is down or refuses, a server without administrator.
NextTCP ==
    /\ ev.n < MaxSteps
    /\ \/ \E c \in Conns : Connect(c)
       \/ \E c \in Conns : Hangup(c)
       \/ \E c \in Conns : cmd_unknown(c)
       \/ \E c \in Conns : cmd_QUIT(c)
       \/ \E c \in Conns : cmd_NOOP(c)
       \/ \E c \in Conns : cmd_CLEAR(c, FALSE, 0, 1)
       \/ \E c \in Conns, uid \in NoticeUids : cmd_CLEAR(c, TRUE, uid, 1)
       \/ \E c \in Conns : cmd_NOTIFY(c, FALSE, 0, 0, 1, 100, 0)
       \/ \E c \in Conns, uid \in NoticeUids, sticky \in {0, 2} :
             cmd_NOTIFY(c, TRUE, 2, uid, 1, 100, sticky)
       \/ \E c \in Conns : cmd_USER(c, FALSE, 7, "ok")
       \/ \E c \in Conns, user \in ClientUids, outcome \in {"ok", "unavailable", "unknown"} :
             cmd_USER(c, TRUE, user, outcome)
       \/ \E c \in Conns, wf \in BOOLEAN, pwok \in BOOLEAN : cmd_PASE(c, wf, pwok)
       \/ \E c \in Conns, wf \in BOOLEAN, pwok \in BOOLEAN : cmd_PASS(c, wf, pwok)
       \/ \E c \in Conns : cmd_CLIENT(c, FALSE, 7, 1, {1})
       \/ \E c \in Conns, uid \in ClientUids : cmd_CLIENT(c, TRUE, uid, 1, {1})
       \/ \E c \in Conns, wf \in BOOLEAN : cmd_LIST(c, wf)

SpecTCP == InitWith({None, 7}) /\ [][NextTCP]_vars

\* ------------------------------------------- the client table alone
\* The methods of NotifyUDPServer that read or write the client table, called
\* directly on a server with an empty sticky store, and the passage of time.
MaxReapTicks == 3       \* steps of the clock in SpecReap
MaxReapEnq == 1         \* requests queued in one run of SpecReap

ReapOthers == <<store, adm, auth, h_open, h_dnd, inprog, atpvars, hist, mailvars,
                clientvars, lockvars>>

ReapEv(op, arg) == ev' = Ev(op, 0, 0, FALSE, arg)

\* NotifyUDPServer.add_client(uid, ip, port, svcs)
NotifyUDPServer_add_client(uid, port, svcs) ==
    LET r == add_client(clients, atp, store, uid, TheIp, port, svcs, now)
    IN /\ Len(r.clients) <= MaxClients
       /\ r.atp.nreq <= MaxReapEnq
       /\ clients' = r.clients
       /\ rqueue' = r.atp.rqueue
       /\ tid' = r.atp.tid
       /\ nreq' = r.atp.nreq
       /\ ReapEv("add_client", <<uid, port>>)
       /\ UNCHANGED <<lqueue, now, ReapOthers>>

\* NotifyUDPServer.post(notice)
NotifyUDPServer_post(uid, type) ==
    LET r == post(clients, atp, Notice(uid, type, 1, FALSE, 0), 1, now)
    IN /\ r.atp.nreq <= MaxReapEnq
       /\ r.atp.nreq > nreq
       /\ clients' = r.clients
       /\ rqueue' = r.atp.rqueue
       /\ tid' = r.atp.tid
       /\ nreq' = r.atp.nreq
       /\ ReapEv("post", <<uid, type>>)
       /\ UNCHANGED <<lqueue, now, ReapOthers>>

\* NotifyUDPServer.update(ip, port)
NotifyUDPServer_update(port) ==
    /\ clients # <<>>
    /\ clients' = update(clients, TheIp, port, now)
    /\ ReapEv("update", <<port>>)
    /\ UNCHANGED <<queues, now, ReapOthers>>

\* NotifyUDPServer.write_poll()
NotifyUDPServer_write_poll ==
    /\ clients # <<>>
    /\ clients' = write_poll(clients, now, SRV_MAXAGE)
    /\ ReapEv("write_poll", <<Len(clients)>>)
    /\ UNCHANGED <<queues, now, ReapOthers>>

\* TickSeconds seconds pass
ReapTick ==
    /\ now < MaxReapTicks * TickSeconds
    /\ now' = now + TickSeconds
    /\ rqueue' = [pos \in 1..Len(rqueue) |->
                     Older(rqueue[pos], TickSeconds, SRV_MAXAGE + TickSeconds)]
    /\ ReapEv("tick", <<>>)
    /\ UNCHANGED <<lqueue, tid, nreq, clients, ReapOthers>>

NextReap ==
    \/ \E uid \in ClientUids, port \in Ports, svcs \in SvcSets :
          NotifyUDPServer_add_client(uid, port, svcs)
    \/ \E uid \in NoticeUids, type \in Types : NotifyUDPServer_post(uid, type)
    \/ \E port \in Ports : NotifyUDPServer_update(port)
    \/ NotifyUDPServer_write_poll
    \/ ReapTick

SpecReap == Init /\ [][NextReap]_vars

\* ====================================================== claims on Spec
\* the elements appended to the outbound queue by the step
\* ------------------------------------------- the transport alone (ntypes)
\* ATPObject with its default handlers: the reader and the writer as two
\* processes, the caller of start, _addreq and stop as a third.  The elements
\* carry their age and their idle time, so the clock needs no reading.
AtpOthers == <<clients, store, now, adm, auth, h_open, h_dnd, hist, inprog, mailvars,
               clientvars, lockvars>>

\* only what the reader was handed is recorded
AtpEv(op, arg) == ev' = IF op = "recv" THEN Ev(op, 0, 0, FALSE, arg)
                        ELSE Ev("atp", 0, 0, FALSE, <<>>)

\* ATPObject.is_running
is_running == r_pc \notin {"none", "done"} /\ w_pc \notin {"none", "done"}

\* Condition.notify: wakes a thread that is waiting, and is lost otherwise
notify_cdc == notified \/ w_pc = "wait"

\* ATPObject.start
ATP_start ==
    /\ r_pc = "none" /\ w_pc = "none"
    /\ sock' = "open"
    /\ cdown' = FALSE
    /\ rqueue' = <<>>
    /\ lqueue' = <<>>
    /\ r_pc' = "select"
    /\ w_pc' = "top"
    /\ AtpEv("start", <<>>)
    /\ UNCHANGED <<tid, nreq, sleep_time, notified, stop_pc, AtpOthers>>

\* ATPObject._addreq, called by the owner of a started transport
ATP_addreq(udata) ==
    LET r == addreq(atp, udata, <<>>, <<TheIp, 1>>) IN
    /\ sock # "none"
    /\ nreq < MaxEnq
    /\ rqueue' = r.rqueue
    /\ tid' = r.tid
    /\ nreq' = r.nreq
    /\ notified' = notify_cdc
    /\ AtpEv("addreq", <<r.nreq, is_running>>)
    /\ UNCHANGED <<lqueue, r_pc, w_pc, sleep_time, cdown, sock, stop_pc, AtpOthers>>

\* ATPObject._sender: one pass under the queue mutex.  On a closed socket the
\* first send raises socket.error, which ends the thread with the queues as
\* they were.
ATP_sender_pass ==
    LET r == sender_pass(rqueue, lqueue, ATP_MAXAGE) IN
    /\ w_pc = "top"
    /\ IF sock = "closed" /\ (r.sent # <<>> \/ r.released # <<>>)
       THEN /\ w_pc' = "done"
            /\ UNCHANGED <<rqueue, lqueue, sleep_time>>
       ELSE /\ rqueue' = r.rqueue
            /\ lqueue' = r.lqueue
            /\ sleep_time' = r.sleep_time
            /\ w_pc' = "check"
    /\ AtpEv("pass", <<>>)
    /\ UNCHANGED <<tid, nreq, r_pc, notified, cdown, sock, stop_pc, AtpOthers>>

\* ATPObject._sender: the shutdown test, then the wait on the condition
ATP_sender_check ==
    /\ w_pc = "check"
    /\ w_pc' = IF cdown THEN "done" ELSE "wait"
    /\ notified' = FALSE
    /\ AtpEv("check", <<>>)
    /\ UNCHANGED <<rqueue, lqueue, tid, nreq, r_pc, sleep_time, cdown, sock, stop_pc,
                   AtpOthers>>

\* ATPObject._sender: the wait returns, notified or timed out
ATP_sender_wake ==
    /\ w_pc = "wait"
    /\ notified \/ (sleep_time # None /\ sleep_time <= 0)
    /\ w_pc' = IF cdown THEN "done" ELSE "top"
    /\ notified' = FALSE
    /\ AtpEv("wake", <<>>)
    /\ UNCHANGED <<rqueue, lqueue, tid, nreq, r_pc, sleep_time, cdown, sock, stop_pc,
                   AtpOthers>>

\* AtpTick seconds pass
ATP_tick ==
    /\ sock # "none"
    /\ rqueue' = [pos \in 1..Len(rqueue) |-> Older(rqueue[pos], AtpTick, ATP_MAXAGE + 1)]
    /\ sleep_time' = IF w_pc = "wait" /\ sleep_time # None
                     THEN Max(0, sleep_time - AtpTick) ELSE sleep_time
    /\ AtpEv("tick", <<>>)
    /\ UNCHANGED <<lqueue, tid, nreq, r_pc, w_pc, notified, cdown, sock, stop_pc, AtpOthers>>

\* what the reader can be handed: an empty datagram, one shorter than the
\* header, one with another DDP tag, and the four ATP kinds
PacketKinds == {"empty", "short", "badtag", "req", "rsp", "rel", "other"}
Malformed == {"short", "badtag"}

\* do_req as overridden by a subclass: a reply, no reply, or an exception from
\* the payload parser (parse_register_req, parse_clear_req)
Hooks == {"true", "false", "raise"}

\* ATPObject._receiver: one datagram read after select.  Only socket.error is
\* caught around the loop: the ValueError of parse_atp_packet and whatever
\* do_req raises end the thread.
ATP_receiver(kind, t, hook) ==
    LET rsp == dispatch_rsp(rqueue, lqueue, t)
        rel == dispatch_rel(rqueue, t)
        req == enqueue_response(atp, t, "NR02", <<TheIp, 2>>)
    IN
    /\ r_pc = "select"
    /\ sock = "open"
    /\ CASE kind = "empty" \/ kind \in Malformed \/ (kind = "req" /\ hook = "raise") ->
              /\ r_pc' = "done"
              /\ UNCHANGED <<rqueue, lqueue, nreq, notified>>
         [] kind = "req" /\ hook = "true" ->
              /\ Len(rqueue) < MaxQ
              /\ nreq < MaxEnq
              /\ rqueue' = req.rqueue
              /\ nreq' = req.nreq
              /\ notified' = notify_cdc
              /\ UNCHANGED <<lqueue, r_pc>>
         [] kind = "rsp" ->
              /\ rqueue' = rsp.rqueue
              /\ lqueue' = rsp.lqueue
              /\ notified' = IF rsp.tobj # <<>> THEN notify_cdc ELSE notified
              /\ UNCHANGED <<nreq, r_pc>>
         [] kind = "rel" ->
              /\ rqueue' = rel.rqueue
              /\ UNCHANGED <<lqueue, nreq, notified, r_pc>>
         [] OTHER ->
              UNCHANGED <<rqueue, lqueue, nreq, notified, r_pc>>
    /\ AtpEv("recv", <<kind, t, hook>>)
    /\ UNCHANGED <<tid, w_pc, sleep_time, cdown, sock, stop_pc, AtpOthers>>

\* ATPObject._receiver after the socket was closed: select or recvfrom fails
\* and the thread ends
ATP_receiver_error ==
    /\ r_pc = "select"
    /\ sock = "closed"
    /\ r_pc' = "done"
    /\ AtpEv("rerror", <<>>)
    /\ UNCHANGED <<rqueue, lqueue, tid, nreq, w_pc, sleep_time, notified, cdown, sock,
                   stop_pc, AtpOthers>>

\* ATPObject._receiver blocked in select on a descriptor that another thread
\* closes: what select does then is unspecified, and it may never return
ATP_receiver_stuck ==
    /\ r_pc = "select"
    /\ sock = "closed"
    /\ r_pc' = "blocked"
    /\ AtpEv("rstuck", <<>>)
    /\ UNCHANGED <<rqueue, lqueue, tid, nreq, w_pc, sleep_time, notified, cdown, sock,
                   stop_pc, AtpOthers>>

\* ATPObject.stop: the test of is_running and the close of the socket
ATP_stop ==
    /\ sock # "none"
    /\ stop_pc = "idle"
    /\ IF is_running
       THEN sock' = "closed" /\ stop_pc' = "flag"
       ELSE stop_pc' = "returned" /\ UNCHANGED sock
    /\ AtpEv("stop", <<is_running>>)
    /\ UNCHANGED <<rqueue, lqueue, tid, nreq, r_pc, w_pc, sleep_time, notified, cdown,
                   AtpOthers>>

\* ATPObject.stop: _cdown = True and notifyAll under the condition
ATP_stop_flag ==
    /\ stop_pc = "flag"
    /\ cdown' = TRUE
    /\ notified' = notify_cdc
    /\ stop_pc' = "join_reader"
    /\ AtpEv("flag", <<>>)
    /\ UNCHANGED <<rqueue, lqueue, tid, nreq, r_pc, w_pc, sleep_time, sock, AtpOthers>>

\* ATPObject.stop: self._reader.join()
ATP_stop_join_reader ==
    /\ stop_pc = "join_reader"
    /\ r_pc = "done"
    /\ stop_pc' = "join_writer"
    /\ AtpEv("joinr", <<>>)
    /\ UNCHANGED <<rqueue, lqueue, tid, nreq, r_pc, w_pc, sleep_time, notified, cdown,
                   sock, AtpOthers>>

\* ATPObject.stop: self._writer.join()
ATP_stop_join_writer ==
    /\ stop_pc = "join_writer"
    /\ w_pc = "done"
    /\ stop_pc' = "returned"
    /\ AtpEv("joinw", <<>>)
    /\ UNCHANGED <<rqueue, lqueue, tid, nreq, r_pc, w_pc, sleep_time, notified, cdown,
                   sock, AtpOthers>>

ReaderTids == {rqueue[pos].tid : pos \in 1..Len(rqueue)} \cup PeerTids

NextATP ==
    \/ ATP_start
    \/ \E udata \in {"NOTI"} : ATP_addreq(udata)
    \/ ATP_sender_pass
    \/ ATP_sender_check
    \/ ATP_sender_wake
    \/ ATP_tick
    \/ \E kind \in PacketKinds \ {"req", "rsp", "rel"} : ATP_receiver(kind, 9, "true")
    \/ \E hook \in Hooks : ATP_receiver("req", 9, hook)
    \/ \E kind \in {"rsp", "rel"}, t \in ReaderTids : ATP_receiver(kind, t, "true")
    \/ ATP_receiver_error
    \/ ATP_receiver_stuck
    \/ ATP_stop
    \/ ATP_stop_flag
    \/ ATP_stop_join_reader
    \/ ATP_stop_join_writer

SpecATP == Init /\ [][NextATP]_vars

\* Both threads and the caller of stop get to run, and time passes; nothing is
\* assumed about the packets that arrive or the requests that are added.
FairSpecATP ==
    /\ SpecATP
    /\ WF_vars(ATP_sender_pass)
    /\ WF_vars(ATP_sender_check)
    /\ WF_vars(ATP_sender_wake)
    /\ WF_vars(ATP_tick)
    /\ WF_vars(ATP_receiver_error)
    /\ WF_vars(ATP_stop_flag)
    /\ WF_vars(ATP_stop_join_reader)
    /\ WF_vars(ATP_stop_join_writer)

\* ------------------------------- the server's writer and the client table
\* The threads of a started NotifyUDPServer: the writer's loop with its
\* write_poll hook, the reader's rsp branch, and the callers of add_client and
\* post.  The clock stops at MaxReapTicks * TickSeconds, but timeouts still
\* run out.
LoopOthers == <<store, adm, auth, h_open, h_dnd, inprog, hist, mailvars, clientvars, lockvars>>

\* the caller of NotifyUDPServer.stop is in its loop over the client table,
\* at entry number i when stop_pc = ResetPc[i], and holds the client-table
\* mutex: the threads that need it wait
ResetPc == <<"reset1", "reset2", "reset3">>
InResetLoop == \E i \in 1..Len(ResetPc) : stop_pc = ResetPc[i]
ResetAt == CHOOSE i \in 1..Len(ResetPc) : stop_pc = ResetPc[i]

\* NotifyUDPServer.add_client called by a control connection (cmd_CLIENT)
Loop_add_client(uid) ==
    LET r == add_client(clients, atp, store, uid, TheIp, 1, {1, 2}, now)
    IN /\ is_running
       /\ ~InResetLoop
       /\ Len(r.clients) <= MaxClients
       /\ r.clients # clients
       /\ r.atp.nreq <= MaxReapEnq
       /\ clients' = r.clients
       /\ rqueue' = r.atp.rqueue
       /\ tid' = r.atp.tid
       /\ nreq' = r.atp.nreq
       /\ notified' = IF r.atp.nreq > nreq THEN notify_cdc ELSE notified
       /\ ReapEv("add_client", <<uid>>)
       /\ UNCHANGED <<lqueue, now, r_pc, w_pc, sleep_time, cdown, sock, stop_pc, LoopOthers>>

\* NotifyUDPServer.post called by a control connection (cmd_NOTIFY)
Loop_post(uid) ==
    LET r == post(clients, atp, Notice(uid, 1, 1, FALSE, 0), 1, now)
    IN /\ is_running
       /\ ~InResetLoop
       /\ r.atp.nreq <= MaxReapEnq
       /\ r.atp.nreq > nreq
       /\ clients' = r.clients
       /\ rqueue' = r.atp.rqueue
       /\ tid' = r.atp.tid
       /\ nreq' = r.atp.nreq
       /\ notified' = notify_cdc
       /\ ReapEv("post", <<uid>>)
       /\ UNCHANGED <<lqueue, now, r_pc, w_pc, sleep_time, cdown, sock, stop_pc, LoopOthers>>

\* ATPObject._receiver, rsp branch, with NotifyUDPServer.do_rsp: a rsp packet
\* with transaction id t received from port sport of the clients' host
Loop_rsp(t, sport) ==
    LET r == dispatch_rsp(rqueue, lqueue, t)
    IN /\ r_pc = "select"
       /\ sock = "open"
       /\ ~InResetLoop
       /\ rqueue' = r.rqueue
       /\ lqueue' = r.lqueue
       /\ clients' = update_all(clients, r.tobj, now)
       /\ notified' = IF r.tobj # <<>> THEN notify_cdc ELSE notified
       /\ ReapEv("rsp", <<t, sport>>)
       /\ UNCHANGED <<tid, nreq, now, r_pc, w_pc, sleep_time, cdown, sock, stop_pc, LoopOthers>>

\* ATPObject._receiver, rel branch, with NotifyUDPServer.do_rel
Loop_rel(t, sport) ==
    LET r == dispatch_rel(rqueue, t)
    IN /\ r_pc = "select"
       /\ sock = "open"
       /\ ~InResetLoop
       /\ rqueue' = r.rqueue
       /\ clients' = update_all(clients, r.released, now)
       /\ ReapEv("rel", <<t, sport>>)
       /\ UNCHANGED <<lqueue, tid, nreq, now, r_pc, w_pc, sleep_time, notified, cdown, sock,
                      stop_pc, LoopOthers>>

\* ATPObject._sender in the server: the pass under the queue mutex, then the
\* write_poll hook
Loop_sender_pass ==
    LET r == sender_pass(rqueue, lqueue, SRV_MAXAGE)
    IN /\ w_pc = "top"
       /\ ~InResetLoop
       /\ IF sock = "closed" /\ (r.sent # <<>> \/ r.released # <<>>)
          THEN /\ w_pc' = "done"
               /\ UNCHANGED <<rqueue, lqueue, sleep_time, clients>>
          ELSE /\ rqueue' = r.rqueue
               /\ lqueue' = r.lqueue
               /\ sleep_time' = r.sleep_time
               /\ clients' = write_poll(clients, now, SRV_MAXAGE)
               /\ w_pc' = "check"
       /\ ReapEv("pass", <<Len(clients)>>)
       /\ UNCHANGED <<tid, nreq, now, r_pc, notified, cdown, sock, stop_pc, LoopOthers>>

\* the writer's test of the shutdown flag before it waits
Loop_sender_check ==
    /\ w_pc = "check"
    /\ w_pc' = IF cdown THEN "done" ELSE "wait"
    /\ notified' = FALSE
    /\ ReapEv("check", <<>>)
    /\ UNCHANGED <<queues, clients, now, r_pc, sleep_time, cdown, sock, stop_pc, LoopOthers>>

\* the writer's wait returns, notified or timed out
Loop_sender_wake ==
    /\ w_pc = "wait"
    /\ notified \/ (sleep_time # None /\ sleep_time <= 0)
    /\ w_pc' = IF cdown THEN "done" ELSE "top"
    /\ notified' = FALSE
    /\ ReapEv("wake", <<>>)
    /\ UNCHANGED <<queues, clients, now, r_pc, sleep_time, cdown, sock, stop_pc, LoopOthers>>

\* TickSeconds seconds pass
Loop_tick ==
    /\ is_running
    /\ now' = Min(now + TickSeconds, MaxReapTicks * TickSeconds)
    /\ rqueue' = [pos \in 1..Len(rqueue) |->
                     Older(rqueue[pos], TickSeconds, SRV_MAXAGE + TickSeconds)]
    /\ sleep_time' = IF w_pc = "wait" /\ sleep_time # None
                     THEN Max(0, sleep_time - TickSeconds) ELSE sleep_time
    /\ ReapEv("tick", <<>>)
    /\ UNCHANGED <<lqueue, tid, nreq, clients, r_pc, w_pc, notified, cdown, sock, stop_pc,
                   LoopOthers>>

\* ATPObject.start of the server
Loop_start ==
    /\ r_pc = "none" /\ w_pc = "none"
    /\ sock' = "open"
    /\ cdown' = FALSE
    /\ rqueue' = <<>>
    /\ lqueue' = <<>>
    /\ r_pc' = "select"
    /\ w_pc' = "top"
    /\ ReapEv("start", <<>>)
    /\ UNCHANGED <<tid, nreq, clients, now, sleep_time, notified, stop_pc, LoopOthers>>

\* the transaction ids of the first requests of the server
LoopTids == {TID_MOD - 1, 0}

\* NotifyUDPServer.stop: the client-table mutex is taken
Loop_stop ==
    /\ stop_pc = "idle"
    /\ stop_pc' = IF clients = <<>> THEN "sleep" ELSE ResetPc[1]
    /\ ReapEv("stop", <<Len(clients)>>)
    /\ UNCHANGED <<queues, clients, now, r_pc, w_pc, sleep_time, notified, cdown, sock,
                   LoopOthers>>

\* NotifyUDPServer.reset that queues nothing
Loop_stop_reset_skip ==
    /\ InResetLoop
    /\ stop_pc' = IF ResetAt = Len(clients) THEN "sleep" ELSE ResetPc[ResetAt + 1]
    /\ ReapEv("reset", <<ResetAt>>)
    /\ UNCHANGED <<queues, clients, now, r_pc, w_pc, sleep_time, notified, cdown, sock,
                   LoopOthers>>

\* NotifyUDPServer.stop, one turn of its loop: reset(elt) queues a Reset for
\* the address of the client; the mutex is released after the last one
Loop_stop_reset ==
    LET r == addreq(atp, "0000", <<>>, client_addr(clients[ResetAt]))
    IN /\ InResetLoop
       /\ rqueue' = r.rqueue
       /\ tid' = r.tid
       /\ nreq' = r.nreq
       /\ notified' = notify_cdc
       /\ stop_pc' = IF ResetAt = Len(clients) THEN "sleep" ELSE ResetPc[ResetAt + 1]
       /\ ReapEv("reset", <<ResetAt>>)
       /\ UNCHANGED <<lqueue, clients, now, r_pc, w_pc, sleep_time, cdown, sock, LoopOthers>>

\* NotifyUDPServer.stop after time.sleep(1): ATPObject.stop tests is_running
\* and closes the socket
Loop_stop_close ==
    /\ stop_pc = "sleep"
    /\ IF is_running
       THEN sock' = "closed" /\ stop_pc' = "flag"
       ELSE stop_pc' = "returned" /\ UNCHANGED sock
    /\ ReapEv("close", <<is_running>>)
    /\ UNCHANGED <<queues, clients, now, r_pc, w_pc, sleep_time, notified, cdown, LoopOthers>>

\* ATPObject.stop: _cdown = True and notifyAll under the condition
Loop_stop_flag ==
    /\ stop_pc = "flag"
    /\ cdown' = TRUE
    /\ notified' = notify_cdc
    /\ stop_pc' = "join"
    /\ ReapEv("flag", <<>>)
    /\ UNCHANGED <<queues, clients, now, r_pc, w_pc, sleep_time, sock, LoopOthers>>

\* ATPObject._receiver after the socket was closed: the thread ends
Loop_receiver_error ==
    /\ r_pc = "select"
    /\ sock = "closed"
    /\ r_pc' = "done"
    /\ ReapEv("rerror", <<>>)
    /\ UNCHANGED <<queues, clients, now, w_pc, sleep_time, notified, cdown, sock, stop_pc,
                   LoopOthers>>

\* ATPObject.stop: both threads are joined
Loop_stop_join ==
    /\ stop_pc = "join"
    /\ r_pc = "done" /\ w_pc = "done"
    /\ stop_pc' = "returned"
    /\ ReapEv("join", <<>>)
    /\ UNCHANGED <<queues, clients, now, r_pc, w_pc, sleep_time, notified, cdown, sock,
                   LoopOthers>>

NextLoop ==
    \/ Loop_start
    \/ \E uid \in ClientUids : Loop_add_client(uid)
    \/ \E uid \in NoticeUids : Loop_post(uid)
    \/ \E t \in LoopTids, sport \in Ports : Loop_rsp(t, sport)
    \/ \E t \in LoopTids, sport \in Ports : Loop_rel(t, sport)
    \/ Loop_sender_pass
    \/ Loop_sender_check
    \/ Loop_sender_wake
    \/ Loop_tick

SpecLoop == Init /\ [][NextLoop]_vars

\* The writer gets to run and time passes; nothing is assumed about the
\* callers or about the packets that arrive.
FairSpecLoop ==
    /\ SpecLoop
    /\ WF_vars(Loop_sender_pass)
    /\ WF_vars(Loop_sender_check)
    /\ WF_vars(Loop_sender_wake)
    /\ WF_vars(Loop_tick)

\* the server that is started, serves its clients and is stopped
NextStop ==
    \/ Loop_start
    \/ \E uid \in ClientUids : Loop_add_client(uid)
    \/ \E t \in LoopTids : Loop_rsp(t, 1)
    \/ Loop_sender_pass
    \/ Loop_sender_check
    \/ Loop_sender_wake
    \/ Loop_stop
    \/ Loop_stop_reset
    \/ Loop_stop_close
    \/ Loop_stop_flag
    \/ Loop_receiver_error
    \/ Loop_stop_join

SpecStop == Init /\ [][NextStop]_vars

\* ------------------------------------------------ the notification client
\* NotifyClient (client.py): the transport of a client that has registered
\* with one server, the packets of that server, and the caller of next().
\* A Notify transaction of the server is a tid with the msgid of its notice;
\* a retransmission is the same packet again.
MaxNotes == 3           \* notifications in the client's queue
NotePackets == {<<1, 11>>, <<2, 12>>}
NoteServer == <<TheIp, 2>>

NoteOthers == <<clients, store, now, adm, auth, h_open, h_dnd, inprog, hist, mailvars,
                sessvars, foldvars, listvars, summvars, topicvars, groupvars, bodyvars,
                lockvars, sleep_time, cdown, stop_pc>>

NoteEv(op, arg) == ev' = Ev(op, 0, 0, FALSE, arg)

\* NotifyClient.start: the transport is started and a Register is queued
NotifyClient_start ==
    LET r == addreq([rqueue |-> <<>>, tid |-> tid, nreq |-> nreq], "NR02", <<>>, NoteServer)
    IN /\ r_pc = "none" /\ w_pc = "none"
       /\ nqueue' = <<>>
       /\ sock' = "open"
       /\ r_pc' = "select"
       /\ w_pc' = "top"
       /\ rqueue' = r.rqueue
       /\ lqueue' = <<>>
       /\ tid' = r.tid
       /\ nreq' = r.nreq
       /\ notified' = notify_cdc
       /\ NoteEv("start", <<>>)
       /\ UNCHANGED NoteOthers

\* ATPObject._receiver, req branch, with NotifyClient.do_req: a NOTI request
\* is appended to the notification queue and answered, a reset request
\* (udata of four zero bytes) is answered, anything else is ignored
NotifyClient_do_req(t, udata, msgid) ==
    LET st == enqueue_response(atp, t, udata, NoteServer)
    IN /\ r_pc = "select"
       /\ IF udata \in {"NOTI", "0000"}
          THEN /\ st.nreq <= MaxEnq
               /\ Len(nqueue) < MaxNotes
               /\ rqueue' = st.rqueue
               /\ nreq' = st.nreq
               /\ notified' = notify_cdc
               /\ nqueue' = IF udata = "NOTI" THEN Append(nqueue, msgid) ELSE nqueue
          ELSE UNCHANGED <<rqueue, nreq, notified, nqueue>>
       /\ NoteEv("req", <<t, udata, msgid>>)
       /\ UNCHANGED <<lqueue, tid, r_pc, w_pc, sock, NoteOthers>>

\* ATPObject._receiver, rel branch (do_rel of the client does nothing)
NotifyClient_rel(t) ==
    /\ r_pc = "select"
    /\ DeadByTid(rqueue, t) # {}
    /\ rqueue' = dispatch_rel(rqueue, t).rqueue
    /\ NoteEv("rel", <<t>>)
    /\ UNCHANGED <<lqueue, tid, nreq, nqueue, notified, r_pc, w_pc, sock, NoteOthers>>

\* ATPObject._sender, the pass under the queue mutex
NotifyClient_pass ==
    LET r == sender_pass(rqueue, lqueue, ATP_MAXAGE)
    IN /\ w_pc = "top"
       /\ r.sent # <<>>
       /\ rqueue' = r.rqueue
       /\ lqueue' = r.lqueue
       /\ NoteEv("pass", <<>>)
       /\ UNCHANGED <<tid, nreq, nqueue, notified, r_pc, w_pc, sock, NoteOthers>>

\* NotifyClient.next with a notification available: it is taken off the queue
NotifyClient_next ==
    /\ r_pc = "select"
    /\ nqueue # <<>>
    /\ nqueue' = Tail(nqueue)
    /\ NoteEv("next", <<Head(nqueue)>>)
    /\ UNCHANGED <<queues, notified, r_pc, w_pc, sock, NoteOthers>>

NextNote ==
    \/ NotifyClient_start
    \/ \E p \in NotePackets, udata \in {"NOTI", "0000", "CLEN"} :
          NotifyClient_do_req(p[1], udata, p[2])
    \/ \E p \in NotePackets : NotifyClient_rel(p[1])
    \/ NotifyClient_pass
    \/ NotifyClient_next

SpecNote == Init /\ [][NextNote]_vars

\* ------------------------------------------------ the sticky store alone
\* NoticeDB called directly; hist logs each call in order.
DbOthers == <<rqueue, lqueue, tid, nreq, clients, now, adm, auth, h_open, h_dnd, ev,
              r_pc, w_pc, sleep_time, notified, cdown, sock, stop_pc, inprog, mailvars,
              clientvars, lockvars>>

NoticeDB_enter(uid, type, msgid, data) ==
    /\ Len(hist) < MaxOps
    /\ store' = enter(store, uid, type, msgid, data)
    /\ hist' = Append(hist, <<"enter", uid, type, msgid, data>>)
    /\ UNCHANGED DbOthers

NoticeDB_cleartype(uid, type) ==
    /\ Len(hist) < MaxOps
    /\ store' = cleartype(store, uid, type)
    /\ hist' = Append(hist, <<"cleartype", uid, type>>)
    /\ UNCHANGED DbOthers

NoticeDB_flush ==
    /\ Len(hist) < MaxOps
    /\ store' = flush(store)
    /\ hist' = Append(hist, <<"flush">>)
    /\ UNCHANGED DbOthers

NextDB ==
    \/ \E uid \in NoticeUids, type \in Types, msgid \in Msgids, data \in Lengths \cup {0} :
          NoticeDB_enter(uid, type, msgid, data)
    \/ \E uid \in NoticeUids, type \in Types : NoticeDB_cleartype(uid, type)
    \/ NoticeDB_flush

SpecDB == Init /\ [][NextDB]_vars

\* ------------------------------------------- the mail sign-on (session.py)
\* BlitzSession.sign_on and reconnect against a server that may answer
\* anything.  A reply is its numeric code; its text is identified with the
\* reply itself.  EOF is the empty line read from a closed connection.
EOF == 0
MailReplies == {EOF, 10, 110, 12, 30, 33, 34, 334}

\* push_off: a boolean, or a predicate on the server's text with its result
PushOffs == {"false", "true", "pred_false", "pred_true"}

MailOthers == <<rqueue, lqueue, tid, nreq, clients, store, now, adm, auth, h_open, h_dnd,
                atpvars, hist, inprog, clientvars, lockvars>>

MailEv(op, key) == ev' = Ev(op, 0, key, FALSE, <<>>)

ProtocolError(key, data) == <<"ProtocolError", key, data>>

\* an _expect that compares the whole code and leaves warn_flag alone
BlitzSession_expect_exact(key, data, wanted) ==
    IF key \notin wanted
    THEN [ok |-> FALSE, exc |-> ProtocolError(key, data)]
    ELSE [ok |-> TRUE, value |-> key, warn |-> m_warn]

\* BlitzSession._expect on a line with code key: the value returned, or the
\* exception raised
BlitzSession_expect(key, data, wanted) ==
    LET flag == key \div 100
        value == key % 100
    IN IF value \notin {k % 100 : k \in wanted}
       THEN [ok |-> FALSE, exc |-> ProtocolError(key, data)]
       ELSE [ok |-> TRUE, value |-> value, warn |-> flag # 0]

\* Session._readline at end of input: _close(), LostConnectionError
lost_connection(op) ==
    /\ m_conn' = FALSE /\ m_input' = FALSE /\ m_saddr' = FALSE
    /\ m_exc' = <<"LostConnectionError", EOF, EOF>>
    /\ m_pc' = "raised"
    /\ MailEv(op, EOF)
    /\ UNCHANGED <<m_sent, m_warn, m_push>>

\* a reply that _expect refuses: the exception leaves reconnect
refused(op, key, e) ==
    /\ m_exc' = e.exc
    /\ m_pc' = "raised"
    /\ MailEv(op, key)
    /\ UNCHANGED <<m_conn, m_input, m_saddr, m_sent, m_warn, m_push>>

\* sign_on up to the first read of reconnect: the directory lookup, close()
\* on the unconnected session, the connect and the VERS command
sign_on(push_off, found, reachable) ==
    /\ m_pc \in {"idle", "raised"}
    /\ ~m_conn
    /\ m_push' = push_off
    /\ IF ~found
       THEN /\ m_exc' = <<"SessionError", 0, 0>>
            /\ m_pc' = "raised"
            /\ UNCHANGED <<m_conn, m_input, m_saddr, m_sent, m_warn>>
       ELSE /\ m_warn' = FALSE
            /\ IF ~reachable
               THEN /\ m_exc' = <<"SessionError", 0, 0>>
                    /\ m_pc' = "raised"
                    /\ m_sent' = <<>>
                    /\ UNCHANGED <<m_conn, m_input, m_saddr>>
               ELSE /\ m_conn' = TRUE /\ m_input' = TRUE /\ m_saddr' = TRUE
                    /\ m_sent' = <<"VERS">>
                    /\ m_exc' = <<>>
                    /\ m_pc' = "vers"
    /\ MailEv("sign_on", 0)
    /\ UNCHANGED MailOthers

\* a reconnect that goes on to UID# whatever the reply to VERS was
reconnect_vers_blind(key) ==
    /\ m_pc = "vers"
    /\ m_warn' = (key \div 100 # 0)
    /\ m_sent' = Append(m_sent, "UID#")
    /\ m_pc' = "uid"
    /\ MailEv("VERS", key)
    /\ UNCHANGED <<m_conn, m_input, m_saddr, m_exc, m_push>>
    /\ UNCHANGED MailOthers

\* reconnect: key, data = self._expect(10) after VERS, then UID#
reconnect_vers(key) ==
    LET e == BlitzSession_expect(key, key, {10}) IN
    /\ m_pc = "vers"
    /\ IF key = EOF THEN lost_connection("VERS")
       ELSE IF ~e.ok THEN refused("VERS", key, e)
       ELSE /\ m_warn' = e.warn
            /\ m_sent' = Append(m_sent, "UID#")
            /\ m_pc' = "uid"
            /\ MailEv("VERS", key)
            /\ UNCHANGED <<m_conn, m_input, m_saddr, m_exc, m_push>>
    /\ UNCHANGED MailOthers

\* reconnect: key, data = self._expect(33) after UID#, then PASE
reconnect_uid(key) ==
    LET e == BlitzSession_expect(key, key, {33}) IN
    /\ m_pc = "uid"
    /\ IF key = EOF THEN lost_connection("UID#")
       ELSE IF ~e.ok THEN refused("UID#", key, e)
       ELSE /\ m_warn' = e.warn
            /\ m_sent' = Append(m_sent, "PASE")
            /\ m_pc' = "pase"
            /\ MailEv("UID#", key)
            /\ UNCHANGED <<m_conn, m_input, m_saddr, m_exc, m_push>>
    /\ UNCHANGED MailOthers

\* BlitzSession.close on a connected session: QUIT, the reply read and any
\* error swallowed, the socket shut down, the caches and warn_flag reset
BlitzSession_close_sent == Append(m_sent, "QUIT")

\* reconnect: the reply to PASE.  "if not push_off" takes a false boolean to
\* _expect(30); anything else, a callable included, to _expect(30, 34).
reconnect_pase(key) ==
    LET truthy == m_push # "false"
        e == BlitzSession_expect(key, key, IF truthy THEN {30, 34} ELSE {30})
        decision == m_push \in {"true", "pred_true"}
    IN
    /\ m_pc = "pase"
    /\ IF key = EOF THEN lost_connection("PASE")
       ELSE IF ~e.ok THEN refused("PASE", key, e)
       ELSE IF e.value = 34
       THEN IF decision
            THEN /\ m_warn' = e.warn
                 /\ m_sent' = Append(m_sent, "PUSH")
                 /\ m_pc' = "push"
                 /\ UNCHANGED <<m_conn, m_input, m_saddr, m_exc>>
                 /\ MailEv("PASE", key)
                 /\ UNCHANGED m_push
            ELSE /\ m_sent' = BlitzSession_close_sent
                 /\ m_conn' = FALSE /\ m_input' = FALSE /\ m_saddr' = FALSE
                 /\ m_warn' = FALSE
                 /\ m_exc' = ProtocolError(e.value, key)
                 /\ m_pc' = "raised"
                 /\ MailEv("PASE", key)
                 /\ UNCHANGED m_push
       ELSE /\ m_warn' = e.warn
            /\ m_pc' = "done"
            /\ MailEv("PASE", key)
            /\ UNCHANGED <<m_conn, m_input, m_saddr, m_sent, m_exc, m_push>>
    /\ UNCHANGED MailOthers

\* reconnect: self._expect(10) after PUSH
reconnect_push(key) ==
    LET e == BlitzSession_expect(key, key, {10}) IN
    /\ m_pc = "push"
    /\ IF key = EOF THEN lost_connection("PUSH")
       ELSE IF ~e.ok THEN refused("PUSH", key, e)
       ELSE /\ m_warn' = e.warn
            /\ m_pc' = "done"
            /\ MailEv("PUSH", key)
            /\ UNCHANGED <<m_conn, m_input, m_saddr, m_sent, m_exc, m_push>>
    /\ UNCHANGED MailOthers

\* BlitzSession.close called by the owner after a sign-on that returned or
\* raised with the connection still open
BlitzSession_close ==
    /\ m_pc \in {"done", "raised"}
    /\ m_conn
    /\ m_sent' = BlitzSession_close_sent
    /\ m_conn' = FALSE /\ m_input' = FALSE /\ m_saddr' = FALSE
    /\ m_warn' = FALSE
    /\ m_pc' = "idle"
    /\ MailEv("close", 0)
    /\ UNCHANGED <<m_exc, m_push, MailOthers>>

NextMail ==
    \/ \E push_off \in PushOffs, found \in BOOLEAN, reachable \in BOOLEAN :
          sign_on(push_off, found, reachable)
    \/ \E key \in MailReplies : reconnect_vers(key)
    \/ \E key \in MailReplies : reconnect_uid(key)
    \/ \E key \in MailReplies : reconnect_pase(key)
    \/ \E key \in MailReplies : reconnect_push(key)
    \/ BlitzSession_close

SpecMail == Init /\ [][NextMail]_vars

\* ------------------------------- the session primitives (session.py 60-212)
\* A connected session and its server.  The wire holds what the server wrote
\* and the session has not read yet: response lines (a code and a text),
\* lines of a multi-line payload, and sized blocks.  A server frames its
\* answer to a command as continuation lines ended by a final line; it may
\* also close or reset the connection at any moment, having written only a
\* part of its answer.
SessKinds == {"mail", "bull"}

Rsp(key, data) == [k |-> "rsp", key |-> key, data |-> data]
Txt(dot) == [k |-> "txt", key |-> 0, data |-> IF dot THEN 1 ELSE 0]
Bytes(n) == [k |-> "bytes", key |-> 0, data |-> n]

\* the text of a response line; a "will send N bytes" line carries N
RspLine(key) == Rsp(key, IF key % 100 = 50 THEN BlockSize ELSE key + 1000)

RECURSIVE Lines(_)
Lines(keys) == IF keys = <<>> THEN <<>> ELSE <<RspLine(Head(keys))>> \o Lines(Tail(keys))

\* what a server answers to a command
Scripts(cmd) ==
    CASE cmd = "NOOP" -> {Lines(<<10>>), Lines(<<110>>), Lines(<<11>>)}
      [] cmd = "WARN" -> {Lines(<<60>>), Lines(<<61, 60>>), Lines(<<166, 62, 160>>)}
      [] cmd = "PREF" -> {Lines(<<0>>), Lines(<<1, 2>>), Lines(<<103, 100>>)}
      [] cmd \in {"MOVE", "COPY"} -> {Lines(<<1, 0>>), Lines(<<101, 1, 0>>), Lines(<<0>>)}
      [] cmd = "RCPT" -> {Lines(<<40>>), Lines(<<44, 45, 41>>), Lines(<<29, 28>>)}
      [] cmd = "LIST" -> {Lines(<<0>>), Lines(<<1, 1, 0>>), Lines(<<13>>)}
      [] cmd = "VTXT" -> {Lines(<<2>>), <<RspLine(50), Bytes(BlockSize), RspLine(10)>>}
      [] cmd = "VDAT" -> {Lines(<<50>>), Lines(<<13>>)}
      [] cmd = "data" -> {Lines(<<10>>)}
      [] cmd = "WHAT" -> {<<RspLine(200), Txt(FALSE), Txt(TRUE)>>, <<RspLine(200), Txt(TRUE)>>,
                          Lines(<<400>>)}
      [] cmd = "TOD" -> {Lines(<<200>>)}
      [] OTHER -> {<<>>}

\* ---- the operations, as the reads and writes that follow their command
Return == "return"
ExpectThen(wanted, next) == [do |-> "expect", wanted |-> wanted, next |-> next]
Then(do, pc) == [do |-> do, wanted |-> {}, next |-> [v \in {0} |-> pc]]

\* BlitzSession.keep_alive: NOOP, _expect(10)
keep_alive(pc) == ExpectThen({10}, [v \in {10} |-> Return])

\* BlitzSession.check_warnings: WARN, then _expect until 60
check_warnings(pc) ==
    ExpectThen({60, 61, 62, 63, 66},
               [v \in {60, 61, 62, 63, 66} |-> IF v = 60 THEN Return ELSE "loop"])

\* BlitzSession._munge_pref: one line per name, 00 or 02 on the last
munge_pref(pc) ==
    ExpectThen({0, 1, 2, 3}, [v \in {0, 1, 2, 3} |-> IF v \in {0, 2} THEN Return ELSE "loop"])

\* BlitzSummary._move_message: _expect(01), then _expect(00, 01) while key <> 0
move_message(pc) ==
    IF pc = "first"
    THEN ExpectThen({1}, [v \in {1} |-> "loop"])
    ELSE ExpectThen({0, 1}, [v \in {0, 1} |-> IF v = 0 THEN Return ELSE "loop"])

\* BlitzOutboundMessage._read_response: the codes that end an expansion
read_response(pc) ==
    LET codes == {28, 29, 40, 41, 42, 43, 44, 45, 46, 47}
    IN ExpectThen(codes, [v \in codes |-> IF v \in {28, 40, 41, 42, 43} THEN Return ELSE "loop"])

\* BlitzList._load_members: _expect(00, 01) until 00
load_members(pc) == ExpectThen({0, 1}, [v \in {0, 1} |-> IF v = 0 THEN Return ELSE "loop"])

\* get_vacation_msg returning as soon as the block is read
get_vacation_msg_noack(pc) ==
    CASE pc = "first" -> ExpectThen({2, 50}, [v \in {2, 50} |-> IF v = 2 THEN Return ELSE "read"])
      [] OTHER -> Then("read", Return)

\* BlitzSession.get_vacation_msg: 02 is "none"; 50 announces a block, read
\* with _read(int(data)) and followed by _expect(10)
get_vacation_msg(pc) ==
    CASE pc = "first" -> ExpectThen({2, 50}, [v \in {2, 50} |-> IF v = 2 THEN Return ELSE "read"])
      [] pc = "read" -> Then("read", "last")
      [] OTHER -> ExpectThen({10}, [v \in {10} |-> Return])

\* BlitzSession.set_vacation_msg: VDAT n, _expect(50), _send(data), _expect(10)
set_vacation_msg(pc) ==
    CASE pc = "first" -> ExpectThen({50}, [v \in {50} |-> "send"])
      [] pc = "send" -> Then("send", "last")
      [] OTHER -> ExpectThen({10}, [v \in {10} |-> Return])

\* Topic.about: WHAT, _expect(200), _readlines()
about(pc) ==
    IF pc = "first" THEN ExpectThen({200}, [v \in {200} |-> "lines"])
    ELSE Then("lines", Return)

\* BulletinSession.server_time: TOD, _expect(200)
server_time(pc) == ExpectThen({200}, [v \in {200} |-> Return])

MailOps == {"keep_alive", "check_warnings", "read_pref", "move_to", "copy_to",
            "add_to_recipient", "get_members", "get_vacation_msg", "set_vacation_msg"}
BullOps == {"about", "server_time"}
OpsOf(kind) == IF kind = "mail" THEN MailOps ELSE BullOps

\* the command an operation begins with
Command(name) ==
    CASE name = "keep_alive" -> "NOOP"
      [] name = "check_warnings" -> "WARN"
      [] name = "read_pref" -> "PREF"
      [] name = "move_to" -> "MOVE"
      [] name = "copy_to" -> "COPY"
      [] name = "add_to_recipient" -> "RCPT"
      [] name = "get_members" -> "LIST"
      [] name = "get_vacation_msg" -> "VTXT"
      [] name = "set_vacation_msg" -> "VDAT"
      [] name = "about" -> "WHAT"
      [] OTHER -> "TOD"

Program(name, pc) ==
    CASE name = "keep_alive" -> keep_alive(pc)
      [] name = "check_warnings" -> check_warnings(pc)
      [] name = "read_pref" -> munge_pref(pc)
      [] name \in {"move_to", "copy_to"} -> move_message(pc)
      [] name = "add_to_recipient" -> read_response(pc)
      [] name = "get_members" -> load_members(pc)
      [] name = "get_vacation_msg" -> get_vacation_msg(pc)
      [] name = "set_vacation_msg" -> set_vacation_msg(pc)
      [] name = "about" -> about(pc)
      [] OTHER -> server_time(pc)

\* the operation moves to position pc, or returns to its caller
Goto(pc) == IF pc = Return THEN Idle ELSE [s_op EXCEPT !.pc = pc]

SessOthers == <<rqueue, lqueue, tid, nreq, clients, store, now, adm, auth, h_open, h_dnd,
                atpvars, hist, inprog, m_pc, m_push, s_kind, foldvars, listvars, summvars, topicvars, groupvars, notevars, bodyvars, lockvars>>

\* the step taken: the primitive, the code or byte count it read, and whether
\* the operation returned to its caller with it (an _expect that accepts also
\* records the pair it returns)
SessEv(op, key, returned) == ev' = Ev(op, 0, key, returned, <<>>)

NotConnectedError == <<"NotConnectedError", 0, 0>>
LostConnectionError == <<"LostConnectionError", EOF, EOF>>
SocketError == <<"socket.error", 0, 0>>

\* Session._expect: the code must be one of those wanted
Session_expect(key, data, wanted) ==
    IF key \notin wanted
    THEN [ok |-> FALSE, exc |-> ProtocolError(key, data)]
    ELSE [ok |-> TRUE, value |-> key, warn |-> m_warn]

\* Session._close: the socket is shut down and the three references cleared;
\* what was not read is gone with the socket
Session_close ==
    /\ m_conn' = FALSE
    /\ m_input' = FALSE
    /\ m_saddr' = FALSE
    /\ wire' = <<>>

\* an exception leaves the primitive and the operation that called it
raise(op, key, exc) ==
    /\ m_exc' = exc
    /\ s_op' = Idle
    /\ SessEv(op, key, FALSE)

\* LostConnectionError raised with the session left as it was
lost_open(op) ==
    /\ raise(op, EOF, LostConnectionError)
    /\ UNCHANGED <<m_conn, m_input, m_saddr, wire, m_sent, m_warn, peer>>

\* the session is closed and LostConnectionError raised
lost(op) ==
    /\ Session_close
    /\ raise(op, EOF, LostConnectionError)
    /\ UNCHANGED <<m_sent, m_warn, peer>>

\* Session._rawsend of a command or a block: the outcome of send() is "ok",
\* "EPIPE" or another socket error; the server answers what it received
SendOutcomes == {"ok", "EPIPE", "error"}

rawsend(cmd, outcome, script, next) ==
    IF ~m_conn
    THEN /\ raise(cmd, 0, NotConnectedError)
         /\ UNCHANGED <<m_conn, m_input, m_saddr, wire, m_sent, m_warn, peer>>
    ELSE IF outcome = "EPIPE" /\ peer # "up"
    THEN lost(cmd)
    ELSE IF outcome = "error" /\ peer # "up"
    THEN /\ raise(cmd, 0, SocketError)
         /\ UNCHANGED <<m_conn, m_input, m_saddr, wire, m_sent, m_warn, peer>>
    ELSE /\ m_sent' = Append(m_sent, cmd)
         /\ wire' = IF peer = "up" THEN wire \o script ELSE wire
         /\ s_op' = next
         /\ m_exc' = <<>>
         /\ SessEv(cmd, 0, FALSE)
         /\ UNCHANGED <<m_conn, m_input, m_saddr, m_warn, peer>>

\* an operation is called: its command is sent
Call(name, outcome, script) ==
    /\ s_op = Idle
    /\ m_pc = "done"
    /\ name \in OpsOf(s_kind)
    /\ Len(m_sent) < MaxSent
    /\ script \in Scripts(Command(name))
    /\ rawsend(Command(name), outcome, script, [name |-> name, pc |-> "first", size |-> 0])
    /\ UNCHANGED SessOthers

\* Session._readline and the _expect of the session's class on top of it
expect_step ==
    LET p == Program(s_op.name, s_op.pc)
        item == Head(wire)
        e == IF s_kind = "mail" THEN BlitzSession_expect(item.key, item.data, p.wanted)
             ELSE Session_expect(item.key, item.data, p.wanted)
    IN
    /\ s_op # Idle
    /\ p.do = "expect"
    /\ IF ~m_input
       THEN /\ raise("expect", 0, NotConnectedError)
            /\ UNCHANGED <<m_conn, m_input, m_saddr, wire, m_sent, m_warn, peer>>
       ELSE IF wire = <<>>
       THEN /\ peer # "up"
            /\ lost("expect")
       ELSE IF item.k # "rsp"
       THEN /\ wire' = Tail(wire)
            /\ raise("expect", 0, <<"ValueError", 0, 0>>)
            /\ UNCHANGED <<m_conn, m_input, m_saddr, m_sent, m_warn, peer>>
       ELSE IF ~e.ok
       THEN /\ wire' = Tail(wire)
            /\ raise("expect", item.key, e.exc)
            /\ UNCHANGED <<m_conn, m_input, m_saddr, m_sent, m_warn, peer>>
       ELSE /\ wire' = Tail(wire)
            /\ m_warn' = e.warn
            /\ s_op' = IF p.next[e.value] = "read"
                       THEN [Goto("read") EXCEPT !.size = item.data]
                       ELSE Goto(p.next[e.value])
            /\ ev' = Ev("expect", 0, item.key, p.next[e.value] = Return, <<e.value, item.data>>)
            /\ UNCHANGED <<m_conn, m_input, m_saddr, m_sent, m_exc, peer>>
    /\ UNCHANGED SessOthers

\* Session._read(size): file.read returns what there is when the stream ends
read_step ==
    LET p == Program(s_op.name, s_op.pc)
        size == s_op.size
        have == IF wire # <<>> /\ Head(wire).k = "bytes" THEN Head(wire).data ELSE 0
    IN
    /\ s_op # Idle
    /\ p.do = "read"
    /\ IF wire = <<>> THEN TRUE ELSE Head(wire).k = "bytes"
    /\ IF ~m_input
       THEN /\ raise("read", 0, NotConnectedError)
            /\ UNCHANGED <<m_conn, m_input, m_saddr, wire, m_sent, m_warn, peer>>
       ELSE IF have >= size
       THEN /\ wire' = Tail(wire)
            /\ s_op' = Goto(p.next[0])
            /\ SessEv("read", size, FALSE)
            /\ UNCHANGED <<m_conn, m_input, m_saddr, m_sent, m_exc, m_warn, peer>>
       ELSE /\ peer # "up"
            /\ IF peer = "reset"
               THEN lost("read")
               ELSE /\ wire' = <<>>
                    /\ s_op' = Goto(p.next[0])
                    /\ SessEv("read", have, FALSE)
                    /\ UNCHANGED <<m_conn, m_input, m_saddr, m_sent, m_exc, m_warn, peer>>
    /\ UNCHANGED SessOthers

\* Session._send(data) in the middle of an operation
send_step(outcome, script) ==
    LET p == Program(s_op.name, s_op.pc) IN
    /\ s_op # Idle
    /\ p.do = "send"
    /\ script \in Scripts("data")
    /\ rawsend("data", outcome, script, Goto(p.next[0]))
    /\ UNCHANGED SessOthers

\* Session._readlines, one turn of its loop: the line read is the terminator
\* or is collected (size counts the lines collected, up to MaxOut)
readlines_step ==
    LET more == [s_op EXCEPT !.size = Min(s_op.size + 1, MaxOut)] IN
    /\ s_op # Idle
    /\ Program(s_op.name, s_op.pc).do = "lines"
    /\ IF wire = <<>>
       THEN /\ peer # "up"
            /\ IF peer = "reset"
               THEN /\ raise("readlines", 0, SocketError)
                    /\ UNCHANGED <<m_conn, m_input, m_saddr, wire, m_sent, m_warn, peer>>
               ELSE /\ s_op' = more
                    /\ SessEv("readlines", EOF, FALSE)
                    /\ UNCHANGED <<m_conn, m_input, m_saddr, wire, m_sent, m_exc, m_warn, peer>>
       ELSE /\ wire' = Tail(wire)
            /\ IF Head(wire).k = "txt" /\ Head(wire).data = 1
               THEN /\ s_op' = Idle
                    /\ SessEv("readlines", 1, TRUE)
               ELSE /\ s_op' = more
                    /\ SessEv("readlines", 2, FALSE)
            /\ UNCHANGED <<m_conn, m_input, m_saddr, m_sent, m_exc, m_warn, peer>>
    /\ UNCHANGED SessOthers

\* the server closes or resets the connection, having written only the first
\* n items of its answer, the last of them possibly cut short
Peer_close(mode, n, cut) ==
    LET kept == SubSeq(wire, 1, n) IN
    /\ peer = "up"
    /\ m_conn
    /\ n \in 0..Len(wire)
    /\ peer' = mode
    /\ wire' = IF cut /\ n > 0 /\ kept[n].k = "bytes"
               THEN [kept EXCEPT ![n] = Bytes(kept[n].data - 1)]
               ELSE kept
    /\ ev' = Ev("peer_close", 0, 0, FALSE, <<>>)
    /\ UNCHANGED <<mailvars, s_op, SessOthers>>

\* reconnect of either class on the path where every reply is the expected
\* one (SpecMail has the other paths of the mail sign-on): close() of the old
\* connexion, the new socket and its input stream, the sign-on dialogue
reconnect ==
    /\ s_op = Idle
    /\ m_conn' = TRUE
    /\ m_input' = TRUE
    /\ m_saddr' = TRUE
    /\ wire' = <<>>
    /\ peer' = "up"
    /\ m_sent' = IF s_kind = "mail" THEN <<"VERS", "UID#", "PASE">> ELSE <<"UID#", "PASE">>
    /\ m_exc' = <<>>
    /\ m_warn' = FALSE
    /\ m_pc' = "done"
    /\ s_op' = Idle
    /\ SessEv("reconnect", 0, TRUE)
    /\ UNCHANGED <<rqueue, lqueue, tid, nreq, clients, store, now, adm, auth, h_open, h_dnd,
                   atpvars, hist, inprog, m_push, s_kind, foldvars, listvars, summvars, topicvars, groupvars, notevars, bodyvars, lockvars>>

\* close() by the owner: QUIT (and, on a mail session, the read of its reply,
\* errors ignored), then Session.close; warn_flag is reset
close ==
    /\ s_op = Idle
    /\ m_conn
    /\ Session_close
    /\ m_sent' = Append(m_sent, "QUIT")
    /\ m_warn' = FALSE
    /\ SessEv("close", 0, TRUE)
    /\ UNCHANGED <<m_exc, peer, s_op, SessOthers>>

NextSess ==
    \/ reconnect
    \/ \E name \in MailOps \cup BullOps, outcome \in SendOutcomes :
          \E script \in Scripts(Command(name)) : Call(name, outcome, script)
    \/ expect_step
    \/ read_step
    \/ \E outcome \in SendOutcomes, script \in Scripts("data") : send_step(outcome, script)
    \/ readlines_step
    \/ \E mode \in {"eof", "reset"}, n \in 0..MaxWire, cut \in BOOLEAN : Peer_close(mode, n, cut)
    \/ close

InitSess == \E kind \in SessKinds : InitAll({7}, kind)

SpecSess == InitSess /\ [][NextSess]_vars

\* the session's own steps are taken as long as they can be: the caller is
\* inside the operation and nothing but the read or write holds it
FairSpecSess ==
    SpecSess /\ WF_vars(expect_step) /\ WF_vars(read_step) /\ WF_vars(readlines_step)
             /\ WF_vars(\E script \in Scripts("data") : send_step("ok", script))

\* ------------------------------ folders of a mail session (bfold.py, session.py)
\* The folder list cache of a signed-on BlitzSession, the BlitzFolder objects
\* the caller holds (one per folder id) and the folders on the server.  Every
\* command is answered with success; an action is one call, and ev records
\* the commands it sent (arg) and the number of summaries returned (reply).
FolderNames == {"n0", "n1"}
Counts == {0, 1}

FoldOthers == <<rqueue, lqueue, tid, nreq, clients, store, now, adm, auth, h_open, h_dnd,
                atpvars, hist, inprog, mailvars, sessvars, listvars, summvars, topicvars, groupvars, notevars, bodyvars, lockvars>>

FoldEv(op, id, result, sent) == ev' = Ev(op, id, result, FALSE, sent)

\* the info line of folder id, as FLIS gives it
Info(id) == [name |-> f_srv[id].name, count |-> f_srv[id].count]

\* BlitzFolder._parse_info, and need_rl as __init__ or reload leaves it
Parsed(info) == [held |-> TRUE, need_rl |-> FALSE, name |-> info.name, count |-> info.count]

\* BlitzFolder.__getattribute__ of count, name or size: a folder out of sync is
\* reloaded first (FLIS id); the folder as it is afterwards, and what was sent
Fresh(id) ==
    IF f_obj[id].need_rl
    THEN [obj |-> Parsed(Info(id)), sent |-> <<<<"FLIS", id>>>>]
    ELSE [obj |-> f_obj[id], sent |-> <<>>]

\* BlitzSession.get_folders: the cache if it holds folders and force is false,
\* else FLIS and one new BlitzFolder per info line
Listed(force) ==
    IF fl_cache # NoCache /\ fl_cache # {} /\ ~force
    THEN [cache |-> fl_cache, objs |-> f_obj, sent |-> <<>>]
    ELSE LET live == {id \in FolderIds : f_srv[id].live}
         IN [cache |-> live,
             objs |-> [id \in FolderIds |-> IF id \in live THEN Parsed(Info(id)) ELSE f_obj[id]],
             sent |-> <<<<"FLIS", 0>>>>]

get_folders(force) ==
    LET r == Listed(force) IN
    /\ m_conn
    /\ fl_cache' = r.cache
    /\ f_obj' = r.objs
    /\ FoldEv("get_folders", IF force THEN 1 ELSE 0, 0, r.sent)
    /\ UNCHANGED <<f_srv, FoldOthers>>

\* BlitzSession.create_folder: FDEF, the cache dropped, a BlitzFolder made
\* from the new id alone (need_rl is true)
create_folder(id, name) ==
    /\ m_conn
    /\ ~f_srv[id].live
    /\ f_srv' = [f_srv EXCEPT ![id] = [live |-> TRUE, name |-> name, count |-> 0]]
    /\ fl_cache' = NoCache
    /\ f_obj' = [f_obj EXCEPT ![id] = [held |-> TRUE, need_rl |-> TRUE, name |-> "", count |-> 0]]
    /\ FoldEv("create_folder", id, 0, <<<<"FDEF", id>>>>)
    /\ UNCHANGED FoldOthers

\* BlitzFolder.remove leaving the session's cache as it is
BlitzFolder_remove_keep(id) ==
    /\ m_conn
    /\ f_obj[id].held
    /\ f_srv[id].live
    /\ id # TRASH
    /\ f_srv' = [f_srv EXCEPT ![id].live = FALSE]
    /\ FoldEv("remove", id, 0, <<<<"FREM", id>>>>)
    /\ UNCHANGED <<fl_cache, f_obj, FoldOthers>>

\* BlitzFolder.remove: FREM id, and the session's cache dropped
BlitzFolder_remove(id) ==
    /\ m_conn
    /\ f_obj[id].held
    /\ f_srv[id].live
    /\ id # TRASH
    /\ f_srv' = [f_srv EXCEPT ![id].live = FALSE]
    /\ fl_cache' = NoCache
    /\ FoldEv("remove", id, 0, <<<<"FREM", id>>>>)
    /\ UNCHANGED <<f_obj, FoldOthers>>

\* BlitzFolder.rename: FNAM id name, and the folder marked out of sync
BlitzFolder_rename(id, new_name) ==
    /\ m_conn
    /\ f_obj[id].held
    /\ f_srv[id].live
    /\ id # TRASH
    /\ f_srv' = [f_srv EXCEPT ![id].name = new_name]
    /\ f_obj' = [f_obj EXCEPT ![id].need_rl = TRUE]
    /\ FoldEv("rename", id, 0, <<<<"FNAM", id>>>>)
    /\ UNCHANGED <<fl_cache, FoldOthers>>

\* BlitzSession.empty_trash: TRSH, then get_folder('trash') - get_folders()
\* and the name of the first folder, the trash, read - and its touch()
empty_trash ==
    LET emptied == [f_srv EXCEPT ![TRASH].count = 0]
        live == {id \in FolderIds : f_srv[id].live}
        hit == fl_cache # NoCache /\ fl_cache # {}
        trash == IF hit
                 THEN IF f_obj[TRASH].need_rl
                      THEN [obj |-> Parsed([name |-> "trash", count |-> 0]),
                            sent |-> <<<<"FLIS", TRASH>>>>]
                      ELSE [obj |-> f_obj[TRASH], sent |-> <<>>]
                 ELSE [obj |-> Parsed([name |-> "trash", count |-> 0]), sent |-> <<<<"FLIS", 0>>>>]
    IN
    /\ m_conn
    /\ f_srv' = emptied
    /\ fl_cache' = IF hit THEN fl_cache ELSE live
    /\ f_obj' = [id \in FolderIds |->
                    IF id = TRASH THEN [trash.obj EXCEPT !.need_rl = TRUE]
                    ELSE IF ~hit /\ id \in live
                         THEN Parsed([name |-> f_srv[id].name, count |-> f_srv[id].count])
                         ELSE f_obj[id]]
    /\ FoldEv("empty_trash", TRASH, 0, <<<<"TRSH", 0>>>> \o trash.sent)
    /\ UNCHANGED FoldOthers

\* get_summaries asking the server whatever the count is
get_summaries_always(id) ==
    LET f == Fresh(id) IN
    /\ m_conn
    /\ f_obj[id].held
    /\ f_srv[id].live
    /\ f_obj' = [f_obj EXCEPT ![id] = f.obj]
    /\ FoldEv("get_summaries", id, f_srv[id].count, Append(f.sent, <<"FSUM", id>>))
    /\ UNCHANGED <<f_srv, fl_cache, FoldOthers>>

\* BlitzFolder.get_summaries: the count is read (and the folder reloaded if
\* it is out of sync); nothing more is done when it is 0, else FSUM
get_summaries(id) ==
    LET f == Fresh(id) IN
    /\ m_conn
    /\ f_obj[id].held
    /\ f_srv[id].live
    /\ f_obj' = [f_obj EXCEPT ![id] = f.obj]
    /\ IF f.obj.count = 0
       THEN FoldEv("get_summaries", id, 0, f.sent)
       ELSE FoldEv("get_summaries", id, f_srv[id].count, Append(f.sent, <<"FSUM", id>>))
    /\ UNCHANGED <<f_srv, fl_cache, FoldOthers>>

\* a message arrives in a folder, or the last one expires from it
deliver(id, count) ==
    /\ m_conn
    /\ f_srv[id].live
    /\ f_srv[id].count # count
    /\ f_srv' = [f_srv EXCEPT ![id].count = count]
    /\ FoldEv("deliver", id, 0, <<>>)
    /\ UNCHANGED <<fl_cache, f_obj, FoldOthers>>

\* the sign-on that went through (SpecMail has the steps of the mail session's)
signed_on ==
    /\ ~m_conn
    /\ m_conn' = TRUE
    /\ m_input' = TRUE
    /\ m_saddr' = TRUE
    /\ m_pc' = "done"
    /\ m_sent' = IF s_kind = "mail" THEN <<"VERS", "UID#", "PASE">> ELSE <<"UID#", "PASE">>
    /\ FoldEv("sign_on", 0, 0, <<>>)
    /\ UNCHANGED <<m_exc, m_warn, m_push, fl_cache, f_obj, f_srv,
                   rqueue, lqueue, tid, nreq, clients, store, now, adm, auth, h_open, h_dnd,
                   atpvars, hist, inprog, sessvars, listvars, summvars, topicvars, groupvars, notevars, bodyvars, lockvars>>

NextFold ==
    \/ signed_on
    \/ \E force \in BOOLEAN : get_folders(force)
    \/ \E id \in FolderIds, name \in FolderNames : create_folder(id, name)
    \/ \E id \in FolderIds : BlitzFolder_remove(id)
    \/ \E id \in FolderIds, name \in FolderNames : BlitzFolder_rename(id, name)
    \/ empty_trash
    \/ \E id \in FolderIds : get_summaries(id)
    \/ \E id \in FolderIds, count \in Counts : deliver(id, count)

SpecFold == Init /\ [][NextFold]_vars

\* ------------------------------ mailing lists of a mail session (blist.py, session.py)
\* The two list caches of a signed-on BlitzSession (a dict from the lowercase
\* name to the BlitzList object, or None) and the lists on the server.  Every
\* command is answered with success; an action is one call, ev records the
\* kind of list (c) and the key of the list (arg).
ListKinds == {list_private, list_group}
ListNames == {"Staff", "kin"}

\* str.lower, on the names used
Lower(name) == IF name = "Staff" THEN "staff" ELSE name

ListOthers == <<rqueue, lqueue, tid, nreq, clients, store, now, adm, auth, h_open, h_dnd,
                atpvars, hist, inprog, mailvars, sessvars, foldvars, summvars, topicvars, groupvars, notevars, bodyvars, lockvars>>

ListEv(op, kind, key) == ev' = Ev(op, kind, 0, FALSE, <<key>>)

\* BlitzList.__init__ and the key its session caches it under
BlitzList(name, fresh) == [key |-> Lower(name), name |-> name, fresh |-> fresh]

\* get_group_lists / get_private_lists: the cache if it holds lists and
\* force is false, else LSTS and a cache of one BlitzList per line
Lists(kind, force) ==
    IF ~l_cache[kind].none /\ l_cache[kind].d # {} /\ ~force
    THEN l_cache[kind]
    ELSE [none |-> FALSE, d |-> {BlitzList(name, FALSE) : name \in l_srv[kind]}]

get_lists(kind, force) ==
    /\ m_conn
    /\ l_cache' = [l_cache EXCEPT ![kind] = Lists(kind, force)]
    /\ ListEv("get_lists", kind, "")
    /\ UNCHANGED <<l_srv, ListOthers>>

\* create_group_list / create_private_list: get_..._list(name), which loads a
\* cache that is None; a name that is not cached gives a fresh list, cached
create_list(kind, name) ==
    LET cache == IF l_cache[kind].none THEN Lists(kind, FALSE) ELSE l_cache[kind]
        found == \E l \in cache.d : l.key = Lower(name)
    IN
    /\ m_conn
    /\ l_cache' = [l_cache EXCEPT ![kind] =
                      IF found THEN cache
                      ELSE [cache EXCEPT !.d = @ \cup {BlitzList(name, TRUE)}]]
    /\ ListEv("create_list", kind, Lower(name))
    /\ UNCHANGED <<l_srv, ListOthers>>

\* the list object the session caches under a key
Cached(kind, key) == ~l_cache[kind].none /\ \E l \in l_cache[kind].d : l.key = key
Entry(kind, key) == CHOOSE l \in l_cache[kind].d : l.key = key

\* BlitzList._save_members on a list the session caches: LDAT, LDEF, and
\* the list is no longer fresh
set_members(kind, key) ==
    /\ m_conn
    /\ Cached(kind, key)
    /\ LET l == Entry(kind, key) IN
       /\ l_srv' = [l_srv EXCEPT ![kind] = @ \cup {l.name}]
       /\ l_cache' = [l_cache EXCEPT ![kind].d = (@ \ {l}) \cup {[l EXCEPT !.fresh = FALSE]}]
    /\ ListEv("set_members", kind, key)
    /\ UNCHANGED ListOthers

\* BlitzList._remove_list(type) on a list the session caches: LREM unless the
\* list is fresh, then the key deleted from pl_cache if that is not None
remove_list(kind, key) ==
    /\ m_conn
    /\ Cached(kind, key)
    /\ LET l == Entry(kind, key) IN
       l_srv' = IF l.fresh THEN l_srv ELSE [l_srv EXCEPT ![kind] = @ \ {l.name}]
    /\ l_cache' = IF l_cache[list_private].none THEN l_cache
                  ELSE [l_cache EXCEPT ![list_private].d = {p \in @ : p.key # key}]
    /\ ListEv("remove", kind, key)
    /\ UNCHANGED ListOthers

NextList ==
    \/ signed_on
    \/ \E kind \in ListKinds, force \in BOOLEAN : get_lists(kind, force)
    \/ \E kind \in ListKinds, name \in ListNames : create_list(kind, name)
    \/ \E kind \in ListKinds, name \in ListNames : set_members(kind, Lower(name))
    \/ \E kind \in ListKinds, name \in ListNames : remove_list(kind, Lower(name))

SpecList == Init /\ [][NextList]_vars

\* ------------------------------ the expiration of a message summary (bmesg.py)
\* One message of a signed-on mail session: the expiration the server stores
\* for it (seconds since 1904) and the expires field of the BlitzSummary the
\* client holds.  Every command is answered with success; ev records the
\* call and its time argument (c).  The string forms of set_expiration's
\* argument ('never', dates) are not modelled.
UnixTimes == {0, 1, 86400, 31536000, 60000000}

\* the server's timestamp for a unix time
MacTime(t) == t - time_offset

\* what MOVE and COPY answer: a new expiration, or -1 for none
NewExps == {-1} \cup {MacTime(t) : t \in UnixTimes}

SummOthers == <<rqueue, lqueue, tid, nreq, clients, store, now, adm, auth, h_open, h_dnd,
                atpvars, hist, inprog, mailvars, sessvars, foldvars, listvars, topicvars, groupvars, notevars, bodyvars, lockvars>>

SummEv(op, t) == ev' = Ev(op, t, 0, FALSE, <<>>)

\* BlitzSummary._parse_response: group 11 of the summary line
parse_response(data) == [built |-> TRUE, expires |-> data + time_offset]

\* BlitzSummary._parse_expire, for an int
parse_expire(when) == when - time_offset

\* BlitzSummary(folder, info): the summary made from a line of FSUM
BlitzSummary ==
    /\ m_conn
    /\ ~summ.built
    /\ summ' = parse_response(srv_expires)
    /\ SummEv("parse", 0)
    /\ UNCHANGED <<srv_expires, SummOthers>>

\* BlitzSummary.reload: MSUM and the line parsed
BlitzSummary_reload ==
    /\ m_conn
    /\ summ.built
    /\ summ' = parse_response(srv_expires)
    /\ SummEv("reload", 0)
    /\ UNCHANGED <<srv_expires, SummOthers>>

\* BlitzSummary.set_expiration(when): EXPR, then reload()
set_expiration(when) ==
    /\ m_conn
    /\ summ.built
    /\ srv_expires' = parse_expire(when)
    /\ summ' = parse_response(parse_expire(when))
    /\ SummEv("set_expiration", when)
    /\ UNCHANGED SummOthers

\* BlitzSummary._move_message(op, new_folder), as move_to and copy_to call
\* it: the first line's text is the new expiration; it is stored in expires
\* as it is, unless it is -1 or the operation is COPY
move_message_to(op, new_exp) ==
    /\ m_conn
    /\ summ.built
    /\ srv_expires' = IF new_exp # -1 /\ op # "COPY" THEN new_exp ELSE srv_expires
    /\ summ' = IF new_exp # -1 /\ op # "COPY" THEN [summ EXCEPT !.expires = new_exp] ELSE summ
    /\ SummEv(IF op = "COPY" THEN "copy_to" ELSE "move_to", 0)
    /\ UNCHANGED SummOthers

\* another client of the same user changes the expiration
expire_elsewhere(t) ==
    /\ m_conn
    /\ srv_expires' = MacTime(t)
    /\ srv_expires' # srv_expires
    /\ SummEv("elsewhere", t)
    /\ UNCHANGED <<summ, SummOthers>>

NextSumm ==
    \/ signed_on
    \/ BlitzSummary
    \/ BlitzSummary_reload
    \/ \E when \in UnixTimes : set_expiration(when)
    \/ \E op \in {"MOVE", "COPY"}, new_exp \in NewExps : move_message_to(op, new_exp)
    \/ \E t \in UnixTimes : expire_elsewhere(t)

SpecSumm == Init /\ [][NextSumm]_vars

\* ------------------------------ the body cache of a message summary (bmesg.py)
\* One BlitzSummary of a signed-on mail session and the body of its message
\* on the server.  A body is a sequence of bytes; b_cache is <<>> for None and
\* <<offset, data>> for the pair.  The server answers TEXT offset length with
\* the bytes [offset, offset + length) of the body, and every command with
\* success; the calls ask for bytes the body has.
MaxBody == 4
Bodies == {<<"a", "CR">>, <<"a", "CR", "b">>, <<"CR", "a", "b", "c">>}
BodyOffsets == {None} \cup (0..(MaxBody - 1))
BodyLengths == {None} \cup (1..MaxBody)

BodyOthers == <<rqueue, lqueue, tid, nreq, clients, store, now, adm, auth, h_open, h_dnd,
                atpvars, hist, inprog, mailvars, sessvars, foldvars, listvars, summvars,
                topicvars, groupvars, notevars, lockvars>>

\* Python's truth value of an int or None argument
Truthy(x) == x # None /\ x # 0

\* s[i:j] of Python
PySlice(s, i, j) ==
    LET lo == IF i < 0 THEN Max(i + Len(s), 0) ELSE i
        hi == IF j < 0 THEN Max(j + Len(s), 0) ELSE Min(j, Len(s))
    IN IF lo >= hi THEN <<>> ELSE SubSeq(s, lo + 1, hi)

\* the server's answer to TEXT offset length
TEXT(body, offset, length) == PySlice(body, offset, offset + length)

\* data.replace('\r', '\n')
replace_cr(data) == [i \in 1..Len(data) |-> IF data[i] = "CR" THEN "LF" ELSE data[i]]

\* BlitzSummary._load_bcache(offset, length): the new cache and the value returned
load_bcache(c, body, offset, length) ==
    IF c = <<>>
    THEN LET data == TEXT(body, offset, length)
         IN [b_cache |-> <<offset, data>>, out |-> replace_cr(data)]
    ELSE LET c1 == IF offset < c[1]
                   THEN <<offset, TEXT(body, offset, c[1] - offset) \o c[2]>>
                   ELSE c
             endpos == (offset - c1[1]) + length
             data == TEXT(body, c1[1] + Len(c1[2]), endpos - Len(c1[2]))
             c2 == IF endpos > Len(c1[2])
                   THEN IF Len(c1[2]) = 0 THEN <<offset, data>>
                        ELSE <<c1[1], c1[2] \o data>>
                   ELSE c1
         IN [b_cache |-> c2, out |-> replace_cr(PySlice(c2[2], offset - c2[1], endpos))]

\* BlitzSummary.get_body(offset, length, force)
get_body(c, slen, body, offset, length, force) ==
    LET c0 == IF c = <<>> \/ force THEN <<>> ELSE c
    IN IF Truthy(offset) /\ Truthy(length)
       THEN load_bcache(c0, body, offset, length)
       ELSE load_bcache(c0, body, 0, slen)

\* BlitzSummary(folder, info): the summary of a message whose body is body
BlitzSummary_init(body) ==
    /\ s_length = None
    /\ s_length' = Len(body)
    /\ srv_body' = body
    /\ b_cache' = <<>>
    /\ ev' = Ev("summary", 0, 0, FALSE, <<>>)
    /\ UNCHANGED <<b_out, BodyOthers>>

\* BlitzSummary.get_body
BlitzSummary_get_body(offset, length, force) ==
    LET r == get_body(b_cache, s_length, srv_body, offset, length, force)
    IN /\ s_length # None
       /\ (offset # None /\ length # None) => offset + length <= Len(srv_body)
       /\ b_cache' = r.b_cache
       /\ b_out' = r.out
       /\ ev' = Ev("get_body", 0, 0, force, <<offset, length>>)
       /\ UNCHANGED <<s_length, srv_body, BodyOthers>>

\* BlitzSummary.delete_body(offset, length): TDEL offset-endpos removes the
\* bytes from the body, the cache is dropped and reload() reads the length
BlitzSummary_delete_body(offset, length) ==
    /\ s_length # None
    /\ offset + length <= Len(srv_body)
    /\ srv_body' = PySlice(srv_body, 0, offset) \o PySlice(srv_body, offset + length, Len(srv_body))
    /\ b_cache' = <<>>
    /\ s_length' = Len(srv_body')
    /\ ev' = Ev("delete_body", 0, 0, FALSE, <<offset, length>>)
    /\ UNCHANGED <<b_out, BodyOthers>>

\* BlitzSummary.move_to(new_folder): MOVE and the folders touched; neither
\* the body nor b_cache is written
BlitzSummary_move_to ==
    /\ s_length # None
    /\ ev' = Ev("move_to", 0, 0, FALSE, <<>>)
    /\ UNCHANGED <<bodyvars, BodyOthers>>

NextBody ==
    \/ \E body \in Bodies : BlitzSummary_init(body)
    \/ \E offset \in BodyOffsets, length \in BodyLengths, force \in BOOLEAN :
          BlitzSummary_get_body(offset, length, force)
    \/ \E offset \in 0..(MaxBody - 1), length \in 1..MaxBody :
          BlitzSummary_delete_body(offset, length)
    \/ BlitzSummary_move_to

SpecBody == Init /\ [][NextBody]_vars

\* ------------------------------ the read articles of a bulletin topic (bulls.py)
\* One Topic of a signed-on bulletin session - its _rcache (the ids read),
\* id_low and _loaded - and what the server keeps for the topic: the lowest
\* article id and the read list last sent by UPDT, in its compact form.  A
\* compact list is a sequence of runs, <<id>> for "id" and <<lo, hi>> for
\* "lo-hi".  Article ids are 1 .. MaxId; 0 stands for no article.  ev records
\* the id marked (c) and the compact list produced (arg).
ArticleIds == 1..MaxId

TopicOthers == <<rqueue, lqueue, tid, nreq, clients, store, now, adm, auth, h_open, h_dnd,
                 atpvars, hist, inprog, mailvars, sessvars, foldvars, listvars, summvars,
                 groupvars, notevars, bodyvars, lockvars>>

TopicEv(op, id, after_read, out) == ev' = Ev(op, id, 0, after_read, out)

\* the ids a compact list stands for, as Topic.parseinfo reads them
RECURSIVE ReadIds(_)
ReadIds(read) ==
    IF read = <<>> THEN {}
    ELSE LET r == Head(read)
             ids == IF Len(r) = 2 THEN r[1]..r[2] ELSE {r[1]}
         IN (ids \ {0}) \cup ReadIds(Tail(read))

\* Topic.parseinfo on the server's line: the ids read are added to _rcache
parseinfo(t) ==
    [rcache |-> t.rcache \cup ReadIds(bull.read), id_low |-> bull.id_low,
     id_high |-> bull.id_high, loaded |-> TRUE]

\* Topic.load(force)
Loaded(t, force) == IF ~t.loaded \/ force THEN parseinfo(t) ELSE t

\* id.sort()
RECURSIVE Sorted(_)
Sorted(ids) ==
    IF ids = {} THEN <<>>
    ELSE LET lo == CHOOSE i \in ids : \A j \in ids : i <= j
         IN <<lo>> \o Sorted(ids \ {lo})

\* the inner loop of _make_read_list: hi moves past the consecutive ids
RECURSIVE RunEnd(_, _)
RunEnd(id, hi) ==
    IF hi <= Len(id) /\ id[hi] = id[hi - 1] + 1 THEN RunEnd(id, hi + 1) ELSE hi

\* the outer loop of _make_read_list
RECURSIVE Runs(_, _)
Runs(id, lo) ==
    IF lo > Len(id) THEN <<>>
    ELSE LET hi == RunEnd(id, lo + 1)
         IN <<IF lo = hi - 1 THEN <<id[lo]>> ELSE <<id[lo], id[hi - 1]>>>> \o Runs(id, hi)

\* _make_read_list keeping the keys below id_low
make_read_list_all(t) ==
    LET out == Runs(Sorted(t.rcache), 1)
    IN [topic |-> t, out |-> IF out = <<>> THEN <<<<0, 0>>>> ELSE out]

\* Topic._make_read_list: the keys below id_low are deleted from _rcache, the
\* rest is sorted and written as runs, "0-0" if there is none
make_read_list(t) ==
    LET kept == {key \in t.rcache : ~(key < t.id_low)}
        out == Runs(Sorted(kept), 1)
    IN [topic |-> [t EXCEPT !.rcache = kept], out |-> IF out = <<>> THEN <<<<0, 0>>>> ELSE out]

\* BulletinSession.get_topics(force): a new Topic from the server's line;
\* __init__ parses the line and then clears id_low and _loaded
get_topics ==
    /\ m_conn
    /\ topic' = [parseinfo([rcache |-> {}]) EXCEPT !.id_low = None, !.id_high = None,
                                                   !.loaded = FALSE]
    /\ TopicEv("get_topics", 0, FALSE, <<>>)
    /\ UNCHANGED <<bull, TopicOthers>>

\* Topic.load(force)
load(force) ==
    /\ m_conn
    /\ topic' = Loaded(topic, force)
    /\ TopicEv("load", 0, FALSE, <<>>)
    /\ UNCHANGED <<bull, TopicOthers>>

\* Article.mark_read
mark_read(id) ==
    /\ m_conn
    /\ topic' = [topic EXCEPT !.rcache = @ \cup {id}]
    /\ TopicEv("mark_read", id, FALSE, <<>>)
    /\ UNCHANGED <<bull, TopicOthers>>

\* Article.mark_unread
mark_unread(id) ==
    /\ m_conn
    /\ topic' = [topic EXCEPT !.rcache = @ \ {id}]
    /\ TopicEv("mark_unread", id, FALSE, <<>>)
    /\ UNCHANGED <<bull, TopicOthers>>

\* the id marked by the step before, 0 if that was not a mark
Marked == IF ev.op \in {"mark_read", "mark_unread"} THEN ev.c ELSE 0

\* Topic.read (__getattribute__): load(), then the compact list
read ==
    LET r == make_read_list(Loaded(topic, FALSE)) IN
    /\ m_conn
    /\ topic' = r.topic
    /\ TopicEv("read", Marked, ev.op = "mark_read", r.out)
    /\ UNCHANGED <<bull, TopicOthers>>

\* Topic.update(): last_id is read (a topic not loaded is loaded), the
\* compact list is made and UPDT sends it to the server
Topic_update ==
    LET r == make_read_list(Loaded(topic, FALSE)) IN
    /\ m_conn
    /\ topic' = r.topic
    /\ bull' = [bull EXCEPT !.read = r.out]
    /\ TopicEv("update", Marked, ev.op = "mark_read", r.out)
    /\ UNCHANGED TopicOthers

\* the oldest articles of the topic expire on the server
expire(id_low) ==
    /\ m_conn
    /\ id_low > bull.id_low
    /\ id_low <= bull.id_high
    /\ bull' = [bull EXCEPT !.id_low = id_low]
    /\ TopicEv("expire", id_low, FALSE, <<>>)
    /\ UNCHANGED <<topic, TopicOthers>>

\* a new article is posted to the topic
arrive ==
    /\ m_conn
    /\ bull.id_high < MaxId
    /\ bull' = [bull EXCEPT !.id_high = @ + 1]
    /\ TopicEv("arrive", bull.id_high + 1, FALSE, <<>>)
    /\ UNCHANGED <<topic, TopicOthers>>

NextTopic ==
    \/ signed_on
    \/ arrive
    \/ get_topics
    \/ \E force \in BOOLEAN : load(force)
    \/ \E id \in ArticleIds : mark_read(id)
    \/ \E id \in ArticleIds : mark_unread(id)
    \/ read
    \/ Topic_update
    \/ \E id_low \in ArticleIds : expire(id_low)

SpecTopic == InitAll({7}, "bull") /\ [][NextTopic]_vars

\* ------------------------------ the selected topic of a bulletin session (bulls.py)
\* BulletinSession.g_select, the name last sent with GROUP, over the calls
\* that read or write it.  The server accepts a GROUP (211), refuses it
\* (411) or the connection is lost while the answer is read.  ev records
\* the topic's name (arg), force (seq) and the code of the answer (reply).
TopicNames == {"news", "jobs", "misc"}
GroupOutcomes == {"ok", "refused", "lost"}

GroupOthers == <<rqueue, lqueue, tid, nreq, clients, store, now, adm, auth, h_open, h_dnd,
                 atpvars, hist, inprog, m_pc, m_warn, m_push, sessvars, foldvars, listvars,
                 summvars, topicvars, notevars, bodyvars, lockvars>>

GroupEv(op, name, force, key) == ev' = Ev(op, 0, key, force, <<name>>)

\* Topic.select(force): GROUP name and _expect(211) unless the name is the
\* one selected and force is false; g_select is set after the answer
Topic_select(name, force, outcome) ==
    /\ Len(m_sent) < MaxSent
    /\ IF g_select # name \/ force
       THEN IF ~m_conn
            THEN /\ outcome = "ok"
                 /\ m_exc' = NotConnectedError
                 /\ GroupEv("select", name, force, 0)
                 /\ UNCHANGED <<g_select, m_sent, m_conn, m_input, m_saddr>>
            ELSE /\ m_sent' = Append(m_sent, "GROUP")
                 /\ CASE outcome = "ok" ->
                            /\ g_select' = name
                            /\ m_exc' = <<>>
                            /\ GroupEv("select", name, force, 211)
                            /\ UNCHANGED <<m_conn, m_input, m_saddr>>
                      [] outcome = "refused" ->
                            /\ m_exc' = ProtocolError(411, 0)
                            /\ GroupEv("select", name, force, 411)
                            /\ UNCHANGED <<g_select, m_conn, m_input, m_saddr>>
                      [] outcome = "lost" ->
                            /\ m_exc' = LostConnectionError
                            /\ m_conn' = FALSE
                            /\ m_input' = FALSE
                            /\ m_saddr' = FALSE
                            /\ GroupEv("select", name, force, 0)
                            /\ UNCHANGED g_select
       ELSE /\ outcome = "ok"
            /\ m_exc' = <<>>
            /\ GroupEv("select", name, force, 0)
            /\ UNCHANGED <<g_select, m_sent, m_conn, m_input, m_saddr>>
    /\ UNCHANGED GroupOthers

\* BulletinSession.close leaving g_select as it was
BulletinSession_close_keep ==
    /\ Len(m_sent) < MaxSent
    /\ m_sent' = IF m_conn THEN Append(m_sent, "QUIT") ELSE m_sent
    /\ m_conn' = FALSE
    /\ m_input' = FALSE
    /\ m_saddr' = FALSE
    /\ m_exc' = <<>>
    /\ GroupEv("close", NoTopic, FALSE, 0)
    /\ UNCHANGED <<g_select, GroupOthers>>

\* BulletinSession.close: QUIT on a connected session, which is closed;
\* bullserv, t_cache and g_select are reset in every case
BulletinSession_close ==
    /\ Len(m_sent) < MaxSent
    /\ m_sent' = IF m_conn THEN Append(m_sent, "QUIT") ELSE m_sent
    /\ m_conn' = FALSE
    /\ m_input' = FALSE
    /\ m_saddr' = FALSE
    /\ g_select' = NoTopic
    /\ m_exc' = <<>>
    /\ GroupEv("close", NoTopic, FALSE, 0)
    /\ UNCHANGED GroupOthers

\* BulletinSession.reconnect that goes through: close(), the connection,
\* the banner, UID# and PASE
BulletinSession_reconnect ==
    /\ m_conn' = TRUE
    /\ m_input' = TRUE
    /\ m_saddr' = TRUE
    /\ m_sent' = <<"UID#", "PASE">>
    /\ g_select' = NoTopic
    /\ m_exc' = <<>>
    /\ GroupEv("reconnect", NoTopic, FALSE, 210)
    /\ UNCHANGED GroupOthers

NextGroup ==
    \/ \E name \in TopicNames, force \in BOOLEAN, outcome \in GroupOutcomes :
            Topic_select(name, force, outcome)
    \/ BulletinSession_close
    \/ BulletinSession_reconnect

SpecGroup == InitAll({7}, "bull") /\ [][NextGroup]_vars

\* ------------------------------ the mutexes of the notification server (ntypes.py, notifyd.py)
\* The three mutexes and the condition's lock of a NotifyUDPServer, and the
\* threads that take them: the transport's reader and writer, a handler
\* thread of the control server, and the thread that calls stop().  A call
\* is the sequence of acquire and release it makes; a step is one of them,
\* and an acquire waits until the mutex is free (threading.Lock).
Mutexes == {"_rqm", "_som", "_clm", "_cdc"}
Threads == {"reader", "writer", "handler", "main"}

Acq(m) == <<"acquire", m>>
Rel(m) == <<"release", m>>

\* ATPObject._addreq
addreq_locks == <<Acq("_rqm"), Acq("_cdc"), Rel("_cdc"), Rel("_rqm")>>

\* NotifyUDPServer.update, as do_rsp and do_rel call it
update_locks == <<Acq("_clm"), Rel("_clm")>>

\* the calls of a thread, and the mutex operations of each in order
LockCalls(t) ==
    CASE t = "reader" -> {"req", "rsp", "rel"}
      [] t = "writer" -> {"pass"}
      [] t = "handler" -> {"post", "add_client", "clients"}
      [] t = "main" -> {"stop"}

LockOps(call) ==
    CASE \* _receiver, req: do_req (NR02: add_client and one sticky notice),
         \* then the response is queued
         call = "req" -> <<Acq("_clm")>> \o addreq_locks \o <<Rel("_clm")>>
                         \o <<Acq("_rqm"), Acq("_cdc"), Rel("_cdc"), Rel("_rqm")>>
         \* _receiver, rsp with a pending request: do_rsp under _rqm, the
         \* release queued and the writer notified
      [] call = "rsp" -> <<Acq("_rqm")>> \o update_locks
                         \o <<Acq("_cdc"), Rel("_cdc"), Rel("_rqm")>>
         \* _receiver, rel with a queued response: do_rel under _rqm
      [] call = "rel" -> <<Acq("_rqm")>> \o update_locks \o <<Rel("_rqm")>>
         \* _sender: one element sent under _rqm, then write_poll, then the wait
      [] call = "pass" -> <<Acq("_rqm"), Acq("_som"), Rel("_som"), Rel("_rqm"),
                            Acq("_clm"), Rel("_clm"),
                            Acq("_cdc"), Rel("_cdc"), Acq("_cdc"), Rel("_cdc")>>
         \* NotifyUDPServer.post with one client that matches
      [] call = "post" -> <<Acq("_clm")>> \o addreq_locks \o <<Rel("_clm")>>
         \* NotifyUDPServer.add_client with one sticky notice that matches
      [] call = "add_client" -> <<Acq("_clm")>> \o addreq_locks \o <<Rel("_clm")>>
         \* NotifyUDPServer.clients
      [] call = "clients" -> <<Acq("_clm"), Rel("_clm")>>
         \* NotifyUDPServer.stop with one client, then ATPObject.stop
      [] call = "stop" -> <<Acq("_clm")>> \o addreq_locks \o <<Rel("_clm")>>
                          \o <<Acq("_cdc"), Rel("_cdc")>>

LockOthers == <<rqueue, lqueue, tid, nreq, clients, store, now, adm, auth, h_open, h_dnd,
                atpvars, hist, inprog, mailvars, clientvars>>

LockEv(op, t, call) == ev' = Ev(op, 0, 0, FALSE, <<t, call>>)

NoCall == [call |-> "none", at |-> 0]

\* the thread enters a call
lock_call(t, call) ==
    /\ th[t] = NoCall
    /\ t = "main" => \A u \in Threads : th[u].call # "stopped"
    /\ th' = [th EXCEPT ![t] = [call |-> call, at |-> 1]]
    /\ LockEv("call", t, call)
    /\ UNCHANGED <<mutex, LockOthers>>

\* the operation the thread is at
LockOp(t) == LockOps(th[t].call)[th[t].at]

\* the thread has asked for a mutex that another holds
Waits(t) == th[t].at > 0 /\ LockOp(t)[1] = "acquire" /\ mutex[LockOp(t)[2]] # "free"

\* where the thread is after the operation: at the next one, or out of the
\* call; stop() is called once
After(t) ==
    IF th[t].at < Len(LockOps(th[t].call)) THEN [th[t] EXCEPT !.at = @ + 1]
    ELSE IF t = "main" THEN [call |-> "stopped", at |-> 0]
    ELSE NoCall

\* Lock.acquire
lock_acquire(t) ==
    /\ th[t].at > 0
    /\ LockOp(t)[1] = "acquire"
    /\ mutex[LockOp(t)[2]] = "free"
    /\ mutex' = [mutex EXCEPT ![LockOp(t)[2]] = t]
    /\ th' = [th EXCEPT ![t] = After(t)]
    /\ LockEv("acquire", t, LockOp(t)[2])
    /\ UNCHANGED LockOthers

\* Lock.release
lock_release(t) ==
    /\ th[t].at > 0
    /\ LockOp(t)[1] = "release"
    /\ mutex' = [mutex EXCEPT ![LockOp(t)[2]] = "free"]
    /\ th' = [th EXCEPT ![t] = After(t)]
    /\ LockEv("release", t, LockOp(t)[2])
    /\ UNCHANGED LockOthers

NextLock ==
    \/ \E t \in Threads : \E call \in LockCalls(t) : lock_call(t, call)
    \/ \E t \in Threads : lock_acquire(t)
    \/ \E t \in Threads : lock_release(t)

SpecLock == Init /\ [][NextLock]_vars



Appended == SubSeq(rqueue', Len(rqueue) + 1, Len(rqueue'))

Count(seq, P(_)) == Cardinality({k \in 1..Len(seq) : P(seq[k])})

Payloads == {<<type, uid, msgid, data>> :
                type \in Types, uid \in NoticeUids, msgid \in Msgids, data \in Lengths \cup {0}}

\* C2: every NR02 registration (first or repeated) of a client (uid, ip, port)
\* with service set svcs enqueues, to that client's address, exactly one Notify
\* per sticky notice with notice.uid in {0, uid} and notice.type in svcs, and
\* no other Notify.
C2_StickyReplayExact ==
    [][(ev'.op = "NR02" /\ ev'.n # ev.n) =>
        LET uid == ev'.arg[1]
            port == ev'.arg[2]
            svcs == ev'.arg[3]
            sent == SelectSeq(Appended, LAMBDA e : e.udata = "NOTI")
        IN /\ Len(rqueue') >= Len(rqueue)
           /\ SubSeq(rqueue', 1, Len(rqueue)) = rqueue
           /\ \A k \in 1..Len(sent) : sent[k].addr = <<TheIp, port>> /\ sent[k].kind = "req"
           /\ \A p \in Payloads :
                 Count(sent, LAMBDA e : e.pdata = p)
                   = Count(store, LAMBDA r : NotifyData(r) = p /\ r.uid \in {0, uid}
                                                 /\ r.type \in svcs)
    ]_vars

\* C8: an accepted NOTIFY inserts exactly one row when its sticky flag is
\* nonzero and none when it is zero; a row of the store disappears only in a
\* CLEAR or CLEN for its (uid, type) or in a flush.
C8_StickyUntilCleared ==
    [][/\ (ev'.op = "NOTIFY" /\ ev'.reply = 200 /\ ev'.n # ev.n) =>
            IF ev'.arg[6] # 0
            THEN /\ Len(store') = Len(store) + 1
                 /\ SubSeq(store', 1, Len(store)) = store
                 /\ LET row == store'[Len(store')]
                    IN <<row.uid, row.type, row.msgid>> = <<ev'.arg[3], ev'.arg[4], ev'.arg[5]>>
            ELSE store' = store
       /\ \A k \in 1..Len(store) :
            (\A j \in 1..Len(store') : store'[j] # store[k]) =>
                \/ ev'.op = "flush"
                \/ /\ ev'.op \in {"CLEAR", "CLEN"}
                   /\ SubSeq(ev'.arg, Len(ev'.arg) - 1, Len(ev'.arg)) = <<store[k].uid, store[k].type>>
    ]_vars

\* a sticky row has been replayed to a registering client whose rsp then
\* arrived, and the row is still in the store
C8_Witness ==
    /\ ev.op = "rsp"
    /\ \E k \in 1..Len(store), j \in 1..Len(lqueue), i \in 1..Len(clients) :
          /\ lqueue[j].udata = "NOTI"
          /\ lqueue[j].addr = client_addr(clients[i])
          /\ Matches(store[k], clients[i])

\* C9: post(notice) appends one Notify request per registered client with
\* notice.uid in {0, client.uid} and notice.type in client.svcs, addressed to
\* that client, nothing else, and sets the send mark of exactly those clients.
C9_PostFanOut ==
    [][(ev'.op = "NOTIFY" /\ ev'.reply = 200 /\ ev'.n # ev.n) =>
        LET uid == ev'.arg[3]
            type == ev'.arg[4]
            msgid == ev'.arg[5]
            data == IF ev'.arg[2] > 0 THEN ev'.arg[2] ELSE 0
            hit == {i \in 1..Len(clients) :
                       uid \in {0, clients[i].uid} /\ type \in clients[i].svcs}
        IN /\ SubSeq(rqueue', 1, Len(rqueue)) = rqueue
           /\ Len(Appended) = Cardinality(hit)
           /\ \A k \in 1..Len(Appended) :
                 /\ Appended[k].kind = "req"
                 /\ Appended[k].udata = "NOTI"
                 /\ Appended[k].pdata = <<type, uid, msgid, data>>
           /\ \A port \in Ports :
                 Count(Appended, LAMBDA e : e.addr = <<TheIp, port>>)
                   = Cardinality({i \in hit : clients[i].port = port})
           /\ Len(clients') = Len(clients)
           /\ \A i \in 1..Len(clients) :
                 clients'[i] = IF i \in hit THEN [clients[i] EXCEPT !.smark = now]
                               ELSE clients[i]
    ]_vars

\* a notice was posted at a later instant to a table with one client that
\* matches and one that does not: one request, one fresh send mark
C9_Witness ==
    /\ ev.op = "NOTIFY"
    /\ ev.reply = 200
    /\ now > 0
    /\ Len(clients) = 2
    /\ \E i, j \in 1..Len(clients) :
          /\ clients[i].smark = now
          /\ clients[j].smark < now
          /\ \E k \in 1..Len(rqueue) :
                rqueue[k].udata = "NOTI" /\ rqueue[k].addr = client_addr(clients[i])
                /\ rqueue[k].pdata[2] = ev.arg[3]

\* call j of the log removes a row entered with (uid, type)
Covers(call, uid, type) ==
    \/ call[1] = "flush"
    \/ call[1] = "cleartype" /\ call[2] = uid /\ call[3] = type

\* the enter calls of the log that no later cleartype or flush covers
Survivors ==
    {i \in 1..Len(hist) :
        /\ hist[i][1] = "enter"
        /\ \A j \in (i + 1)..Len(hist) : ~Covers(hist[j], hist[i][2], hist[i][3])}

\* C7: after any sequence of enter, cleartype and flush the listing holds, with
\* multiplicity, exactly the entered notices that no later cleartype for their
\* (uid, type) and no later flush covers.
C7_StoreAlgebra ==
    /\ Len(notices(store)) = Cardinality(Survivors)
    /\ \A p \in Payloads :
          Count(notices(store), LAMBDA r : NotifyData(r) = p)
            = Cardinality({i \in Survivors :
                             <<hist[i][3], hist[i][2], hist[i][4], hist[i][5]>> = p})

\* two equal notices were entered, a cleartype for another type of the same
\* uid came after them, and both are listed
C7_Witness ==
    /\ Len(hist) >= 3
    /\ \E i, j, k \in 1..Len(hist) :
          /\ i < j /\ j < k
          /\ hist[i][1] = "enter" /\ hist[j] = hist[i]
          /\ hist[k][1] = "cleartype"
          /\ hist[k][2] = hist[i][2] /\ hist[k][3] # hist[i][3]
    /\ Len(notices(store)) >= 2

\* request number n is in the outbound queue
Queued(n) == \E pos \in 1..Len(rqueue) : rqueue[pos].ser = n /\ rqueue[pos].kind = "req"

\* C1: every request that is in the queue of a transport whose reader and
\* writer run is eventually out of the queue again, answered or aged, unless
\* stop is called or a thread ends first.
C1_RequestLeaves ==
    \A n \in 1..MaxEnq :
        (Queued(n) /\ is_running) ~> (~Queued(n) \/ stop_pc # "idle" \/ ~is_running)

\* C5: a datagram that is too short or has another DDP tag, or a request whose
\* payload the handler cannot parse, leaves the queues as they were and the
\* reader waiting for the next datagram.
C5_MalformedDropped ==
    [][(r_pc = "select" /\ ev'.op = "recv"
          /\ (ev'.arg[1] \in Malformed \/ (ev'.arg[1] = "req" /\ ev'.arg[3] = "raise")))
          => (r_pc' = "select" /\ UNCHANGED <<rqueue, lqueue>>)]_vars

\* C6: when stop has returned on a started transport, neither the reader nor
\* the writer is still running.
C6_StopStopsBoth ==
    stop_pc = "returned" => (r_pc = "done" /\ w_pc = "done")

\* the push_off decision of the sign-on in progress, once resolved
Decision == m_push \in {"true", "pred_true"}

\* C10: when the reply to PASE is the busy code, whatever its hundreds digit:
\* with a true decision PUSH is sent next and the session stays connected,
\* and a reply 10 to PUSH ends the sign-on, any other reply raising; with a
\* false decision no PUSH is sent, the session is no longer connected and
\* ProtocolError is raised with the busy code and the server's text.
C10_BusySignOn ==
    [][/\ (m_pc = "pase" /\ m_pc' # "pase" /\ ev'.reply % 100 = 34) =>
            IF Decision
            THEN /\ m_sent' = Append(m_sent, "PUSH")
                 /\ m_pc' = "push"
                 /\ m_conn'
            ELSE /\ \A k \in 1..Len(m_sent') : m_sent'[k] # "PUSH"
                 /\ ~m_conn'
                 /\ m_pc' = "raised"
                 /\ m_exc'[1] = "ProtocolError"
                 /\ m_exc'[2] % 100 = 34
                 /\ m_exc'[3] = ev'.reply
       /\ (m_pc = "push" /\ m_pc' # "push" /\ ev'.reply # EOF) =>
            IF ev'.reply % 100 = 10
            THEN m_pc' = "done" /\ m_conn' /\ m_exc' = <<>>
            ELSE m_pc' = "raised" /\ m_exc'[1] = "ProtocolError"
    ]_vars

\* The caller holds the administrator's identity: an administrator is
\* configured and the authenticated uid is that administrator.
IsAdmin == adm # None /\ auth = adm

\* the privileged commands: LIST, CLIENT, and NOTIFY with uid 0
Gated(e) ==
    \/ e.op \in {"LIST", "CLIENT"}
    \/ e.op = "NOTIFY" /\ e.arg # <<>> /\ e.arg[1] /\ e.arg[3] = 0

\* C3: a dispatched LIST, CLIENT or NOTIFY with uid 0 from a caller that is not
\* the configured administrator is answered 554 and leaves the sticky store,
\* the client table and the request queue as they were.
C3_AdminOnly ==
    [][(ev'.n # ev.n /\ ~ev'.seq /\ Gated(ev') /\ ~IsAdmin)
          => (ev'.reply = 554 /\ UNCHANGED <<store, clients, rqueue>>)]_vars

TcpCmds == {"XYZZY", "QUIT", "NOOP", "CLEAR", "NOTIFY", "USER", "PASE", "PASS",
            "CLIENT", "LIST"}

\* C4: while an authentication is in progress on a connection, every command
\* other than PASE and PASS is answered 503, changes nothing but the pending
\* authentication, which it ends; any other command line is dispatched to its
\* handler.
C4_Sequencing ==
    [][(ev'.n # ev.n /\ ev'.op \in TcpCmds)
          => IF inprog[ev'.c] /\ ev'.op \notin {"PASE", "PASS"}
             THEN /\ ev'.reply = 503
                  /\ ev'.seq
                  /\ h_dnd'[ev'.c] = None
                  /\ ~inprog'[ev'.c]
                  /\ UNCHANGED <<store, clients, rqueue, auth, h_open>>
             ELSE ~ev'.seq /\ ev'.reply # 503]_vars

\* a NOTIFY, CLIENT or CLEAR was refused with 503 and the connection is open
\* with no authentication pending
C4_Witness ==
    /\ ev.reply = 503
    /\ ev.op \in {"NOTIFY", "CLIENT", "CLEAR"}
    /\ h_open[ev.c]
    /\ h_dnd[ev.c] = None

SignOnCmds == <<"VERS", "UID#", "PASE", "PUSH">>

\* the sign-on commands of a log, in the order sent
SignOnSent(s) == SelectSeq(s, LAMBDA c : c # "QUIT")

\* the reply that lets reconnect go on from position pc
Expected(pc, key) ==
    CASE pc = "vers" -> key % 100 = 10
      [] pc = "uid" -> key % 100 = 33
      [] pc = "pase" -> key % 100 \in {30, 34}
      [] pc = "push" -> key % 100 = 10
      [] OTHER -> FALSE

\* a step of reconnect that read a reply
ReadStep == m_pc \in {"vers", "uid", "pase", "push"} /\ m_pc' # m_pc

\* C11: the sign-on commands go out in the order VERS, UID#, PASE, PUSH, each
\* only once the expected reply to the one before was read, and PUSH only
\* after the busy reply; reconnect returns only on 30 to PASE or 10 to PUSH;
\* any other reply raises ProtocolError and no sign-on command follows it.
C11_SignOnOrder ==
    [][/\ LET s == SignOnSent(m_sent')
          IN Len(s) <= 4 /\ s = SubSeq(SignOnCmds, 1, Len(s))
       /\ ReadStep =>
            /\ SignOnSent(m_sent') # SignOnSent(m_sent) =>
                  /\ Expected(m_pc, ev'.reply)
                  /\ SignOnSent(m_sent') = Append(SignOnSent(m_sent), SignOnCmds[Len(SignOnSent(m_sent)) + 1])
                  /\ m_sent'[Len(m_sent')] = "PUSH" => ev'.reply % 100 = 34
            /\ m_pc' = "done" =>
                  \/ m_pc = "pase" /\ ev'.reply % 100 = 30
                  \/ m_pc = "push" /\ ev'.reply % 100 = 10
            /\ (ev'.reply # EOF /\ ~Expected(m_pc, ev'.reply)) =>
                  /\ m_exc'[1] = "ProtocolError"
                  /\ m_pc' = "raised"
                  /\ SignOnSent(m_sent') = SignOnSent(m_sent)
       /\ (m_pc \in {"raised", "done"} /\ ev'.op # "sign_on") =>
            SignOnSent(m_sent') = SignOnSent(m_sent)
    ]_vars

\* a sign-on went through all four commands and returned
C11_Witness ==
    /\ m_pc = "done"
    /\ m_sent = SignOnCmds
    /\ m_conn

\* the commands and blocks a session writes
Commands == {Command(name) : name \in MailOps \cup BullOps} \cup {"data"}

\* C12: a step that raises LostConnectionError (a send that met a broken pipe,
\* a line read that met a reset or the end of the stream) leaves the session
\* closed: not connected, the socket, input stream and address references
\* cleared.  From then on every command raises NotConnectedError and nothing
\* is written, and only reconnect connects the session again.
C12_LostMeansClosed ==
    [][/\ m_exc' = LostConnectionError =>
             ~m_conn' /\ ~m_input' /\ ~m_saddr' /\ s_op' = Idle
       /\ (~m_conn /\ ev'.op \in Commands) =>
             m_exc' = NotConnectedError /\ m_sent' = m_sent /\ ~m_conn'
       /\ (~m_conn /\ m_conn') => ev'.op = "reconnect"
    ]_vars

\* a command met a broken pipe: LostConnectionError, and the session is closed
C12_Witness ==
    /\ m_exc = LostConnectionError
    /\ ev.op \in Commands
    /\ ~m_conn /\ ~m_input /\ ~m_saddr
    /\ peer # "up"

\* the session is inside a read primitive and the stream holds less than the
\* primitive needs: no line, or fewer bytes than the size asked for
Waiting ==
    /\ s_op # Idle
    /\ LET do == Program(s_op.name, s_op.pc).do
       IN /\ do \in {"expect", "read", "lines"}
          /\ IF wire = <<>> THEN TRUE
             ELSE do = "read" /\ Head(wire).k = "bytes" /\ Head(wire).data < s_op.size

\* C13: when the server has closed or reset the connection and the session is
\* waiting in a read primitive (a response line, a sized block, a multi-line
\* payload), the primitive ends there with LostConnectionError: it does not
\* return a short block, and it does not go on reading for ever.
C13_ReadEndsAtClose ==
    /\ [][(Waiting /\ peer # "up") => (m_exc' = LostConnectionError /\ s_op' = Idle)]_vars
    /\ (Waiting /\ peer # "up") ~> (s_op = Idle)

C15_ExpectMod100 ==
    [][/\ (s_kind = "mail" /\ ev'.op = "expect" /\ m_input /\ wire # <<>>) =>
            LET c == Head(wire).key
                text == Head(wire).data
                wanted == Program(s_op.name, s_op.pc).wanted
            IN IF \E k \in wanted : c % 100 = k % 100
               THEN /\ m_exc' = <<>>
                    /\ ev'.arg = <<c % 100, text>>
                    /\ m_warn' = (c \div 100 # 0)
               ELSE /\ m_exc' = ProtocolError(c, text)
                    /\ s_op' = Idle
                    /\ m_warn' = m_warn
       /\ ev'.op = "close" => ~m_warn'
       /\ ev'.op \notin {"expect", "close", "reconnect"} => m_warn' = m_warn
    ]_vars

\* a line whose hundreds digit is set was accepted and warn_flag is true
C15_Witness ==
    /\ s_kind = "mail"
    /\ ev.op = "expect"
    /\ ev.reply >= 100
    /\ ev.arg = <<ev.reply % 100, ev.reply + 1000>>
    /\ m_warn

\* C16 (as claimed): get_summaries on a folder whose count is 0 returns the
\* empty list and sends no command at all.
C16_EmptyFolderSilent ==
    [][(ev'.op = "get_summaries" /\ f_obj'[ev'.c].count = 0) =>
            (ev'.reply = 0 /\ ev'.arg = <<>>)]_vars

\* C16 (amended): get_summaries on a folder whose count is 0 returns the
\* empty list and sends no FSUM; it sends nothing at all when the folder is
\* in sync, and exactly the one FLIS of the reload when it is out of sync.
C16_EmptyFolderNoFSUM ==
    [][(ev'.op = "get_summaries" /\ f_obj'[ev'.c].count = 0) =>
            /\ ev'.reply = 0
            /\ ev'.arg = IF f_obj[ev'.c].need_rl THEN <<<<"FLIS", ev'.c>>>> ELSE <<>>
            /\ ~f_obj'[ev'.c].need_rl
    ]_vars

\* get_summaries ran on an empty folder that was out of sync
C16_Witness ==
    /\ ev.op = "get_summaries"
    /\ f_obj[ev.c].count = 0
    /\ ev.reply = 0
    /\ ev.arg = <<<<"FLIS", ev.c>>>>

\* C17 (as claimed): after create_folder, a folder's remove, empty_trash or a
\* folder's rename the cached folder list is invalid, so that the next
\* get_folders() sends FLIS.
C17_MutationInvalidates ==
    [][ev'.op \in {"create_folder", "remove", "empty_trash", "rename"} =>
            (fl_cache' = NoCache \/ fl_cache' = {})]_vars

\* C17 (amended): create_folder and a folder's remove leave the cached folder
\* list invalid; a rename keeps the list and marks the folder out of sync;
\* empty_trash keeps a list that was cached and marks the trash out of sync;
\* get_folders sends FLIS exactly when the list is invalid or force is set.
C17_InvalidateOrTouch ==
    [][/\ ev'.op \in {"create_folder", "remove"} => fl_cache' = NoCache
       /\ ev'.op = "rename" => (fl_cache' = fl_cache /\ f_obj'[ev'.c].need_rl)
       /\ ev'.op = "empty_trash" =>
            /\ f_obj'[TRASH].need_rl
            /\ (fl_cache # NoCache /\ fl_cache # {}) => fl_cache' = fl_cache
       /\ ev'.op = "get_folders" =>
            /\ (ev'.arg = <<>>) <=> (fl_cache # NoCache /\ fl_cache # {} /\ ev'.c = 0)
            /\ ev'.arg # <<>> => ev'.arg = <<<<"FLIS", 0>>>>
    ]_vars

\* a folder was renamed while the list was cached: the list is kept and the
\* folder is out of sync
C17_Witness ==
    /\ ev.op = "rename"
    /\ fl_cache # NoCache
    /\ ev.c \in fl_cache
    /\ f_obj[ev.c].need_rl

\* C18: remove() on a mailing list drops that list's entry from the session
\* cache of its own kind - no entry under its lowercase name remains there -
\* and leaves the cache of the other kind unchanged.
C18_RemoveDropsOwnEntry ==
    [][ev'.op = "remove" =>
            LET kind == ev'.c
                other == CHOOSE k \in ListKinds : k # kind
            IN /\ \A l \in l_cache'[kind].d : l.key # ev'.arg[1]
               /\ l_cache'[other] = l_cache[other]
    ]_vars

\* the part of C18 that holds: a private list's remove() leaves no entry
\* under its key in the private-list cache and the group-list cache as it was
PrivateRemoveDrops ==
    [][(ev'.op = "remove" /\ ev'.c = list_private) =>
            /\ \A l \in l_cache'[list_private].d : l.key # ev'.arg[1]
            /\ l_cache'[list_group] = l_cache[list_group]
    ]_vars

\* C19: after a summary line is parsed and after reload, set_expiration,
\* move_to and copy_to, expires equals the expiration the server stores plus
\* the offset -2082826800 (a unix timestamp); set_expiration(t) and its
\* reload give expires = t; copy_to does not change expires.
C19_ExpiresIsUnix ==
    [][/\ ev'.op \in {"parse", "reload", "set_expiration", "move_to", "copy_to"} =>
            summ'.expires = srv_expires' + time_offset
       /\ ev'.op = "set_expiration" => summ'.expires = ev'.c
       /\ ev'.op = "copy_to" => summ'.expires = summ.expires
    ]_vars

\* the part of C19 that holds: parse, reload and set_expiration leave expires
\* a unix timestamp, set_expiration(t) gives t, copy_to changes nothing
ExpiresButMove ==
    [][/\ ev'.op \in {"parse", "reload", "set_expiration"} =>
            summ'.expires = srv_expires' + time_offset
       /\ ev'.op = "set_expiration" => summ'.expires = ev'.c
       /\ ev'.op = "copy_to" => summ'.expires = summ.expires
    ]_vars

\* C20 (as claimed): the compact read list a topic produces right after
\* mark_read(id) contains id, and the one right after mark_unread(id) does
\* not, whatever marks and loads came before.
C20_MarkThenCompact ==
    [][(ev'.op \in {"read", "update"} /\ ev.op \in {"mark_read", "mark_unread"}) =>
            (ev.c \in ReadIds(ev'.arg)) <=> (ev.op = "mark_read")]_vars

\* C20 (amended): the compact read list right after mark_read(id) contains
\* id exactly when id is not below the topic's id_low; the one right after
\* mark_unread(id) on a topic that was loaded does not contain id.
C20_MarkThenCompactFromLow ==
    [][(ev'.op \in {"read", "update"}) =>
            /\ ev.op = "mark_read" => (ev.c \in ReadIds(ev'.arg) <=> ev.c >= topic'.id_low)
            /\ (ev.op = "mark_unread" /\ topic.loaded) => ev.c \notin ReadIds(ev'.arg)
    ]_vars

\* an article at or above an id_low that the server had raised was marked
\* read and is in the compact list made next, which has more than one run
C20_Witness ==
    /\ ev.op = "read"
    /\ ev.seq
    /\ ev.c >= topic.id_low
    /\ ev.c \in ReadIds(ev.arg)
    /\ topic.id_low > 1
    /\ Len(ev.arg) > 1

\* the compact form of a set of ids: its maximal runs of consecutive ids in
\* ascending order, <<id>> for a run of one, and "0-0" for no id
IsCompactOf(out, ids) ==
    IF ids = {} THEN out = <<<<0, 0>>>>
    ELSE /\ \A i \in 1..Len(out) :
               LET lo == out[i][1]
                   hi == out[i][Len(out[i])]
               IN /\ Len(out[i]) \in {1, 2}
                  /\ Len(out[i]) = 2 => lo < hi
                  /\ lo..hi \subseteq ids
                  /\ lo - 1 \notin ids
                  /\ hi + 1 \notin ids
                  /\ i > 1 => out[i - 1][Len(out[i - 1])] < lo
         /\ ReadIds(out) = ids

\* C21: the compact read list of a topic is the compact form of the set it
\* denotes; that set is the read set intersected with id_low..id_high; and
\* parsing the list and compacting again gives the same list.
C21_CompactionExact ==
    [][ev'.op \in {"read", "update"} =>
            LET t == Loaded(topic, FALSE)
                out == ev'.arg
            IN /\ IsCompactOf(out, ReadIds(out))
               /\ ReadIds(out) = t.rcache \cap (t.id_low..t.id_high)
               /\ make_read_list([t EXCEPT !.rcache = ReadIds(out)]).out = out
    ]_vars

\* the part of C21 that holds: the list is the compact form of the read ids
\* that are not below id_low, and compaction is idempotent
CompactionFromLow ==
    [][ev'.op \in {"read", "update"} =>
            LET t == Loaded(topic, FALSE)
                out == ev'.arg
            IN /\ IsCompactOf(out, {id \in t.rcache : id >= t.id_low})
               /\ make_read_list([t EXCEPT !.rcache = ReadIds(out)]).out = out
    ]_vars

\* C22: Topic.select sends GROUP iff g_select differs from the topic's name
\* or force is set; after a select that succeeded g_select is the topic's
\* name, and a further select of that topic without force sends nothing; a
\* GROUP that failed leaves g_select as it was; close and reconnect reset
\* it, and the first select after a reconnect sends GROUP.
C22_SelectOnce ==
    [][/\ (ev'.op = "select" /\ m_conn) =>
            LET name == ev'.arg[1] IN
            /\ IF g_select # name \/ ev'.seq
               THEN m_sent' = Append(m_sent, "GROUP")
               ELSE m_sent' = m_sent
            /\ m_exc' = <<>> => g_select' = name
            /\ m_exc' # <<>> => g_select' = g_select
            /\ (ev.op = "select" /\ m_exc = <<>> /\ ev.arg = ev'.arg /\ ~ev'.seq) =>
                    m_sent' = m_sent
            /\ ev.op = "reconnect" => m_sent' = Append(m_sent, "GROUP")
       /\ (ev'.op = "select" /\ ~m_conn) => (m_sent' = m_sent /\ g_select' = g_select)
       /\ ev'.op \in {"close", "reconnect"} => g_select' = NoTopic
    ]_vars

\* a topic was selected with GROUP, and selected again without force, which
\* sent nothing
C22_Witness ==
    /\ ev.op = "select"
    /\ ~ev.seq
    /\ ev.reply = 0
    /\ m_conn
    /\ m_exc = <<>>
    /\ g_select = ev.arg[1]
    /\ m_sent # <<>>
    /\ m_sent[Len(m_sent)] = "GROUP"

\* C23: the server never deadlocks on its mutexes: there is never a set of
\* threads each of which waits for a mutex held by a thread of the set (such
\* threads never acquire the mutex they asked for).
C23_NoDeadlock ==
    \A S \in SUBSET Threads :
        S # {} => \E t \in S : ~(Waits(t) /\ mutex[LockOp(t)[2]] \in S)

\* request number n is in the outbound queue and due for transmission (a
\* request that was never transmitted is due)
Due(n) ==
    \E pos \in 1..Len(rqueue) :
        rqueue[pos].ser = n /\ rqueue[pos].kind = "req" /\ is_due(rqueue[pos], RETRANS)

\* C24: the signal of _addreq is never lost: a request that is queued on a
\* running transport and due is transmitted (or leaves the queue) without any
\* later enqueue, unless stop is called or a thread ends first.
C24_SignalNotLost ==
    \A n \in 1..MaxEnq :
        (Due(n) /\ is_running) ~> (~Due(n) \/ stop_pc # "idle" \/ ~is_running)

\* what the server lets a control connection do: LIST and broadcasts
Allowed == check_perms("list", auth, adm)

\* C25: authentication is per connection.  A QUIT, PASE or PASS on one
\* connection does not change what another open connection is allowed to do,
\* and a LIST or broadcast on a connection that has only just been opened,
\* and so has not signed on, is refused with 554.
C25_AuthPerConnection ==
    [][/\ (ev'.op \in {"QUIT", "PASE", "PASS"} /\ ev'.n # ev.n
             /\ \E d \in Conns : d # ev'.c /\ h_open[d])
          => (Allowed' <=> Allowed)
       /\ (ev.op = "connect" /\ ev'.n # ev.n /\ ev'.c = ev.c
             /\ Gated(ev') /\ ev'.op # "CLIENT" /\ ~ev'.seq)
          => ev'.reply = 554
    ]_vars

\* positions of the pending requests (not the queued responses) with tid t
PendingByTid(q, t) == {pos \in DeadByTid(q, t) : q[pos].kind = "req"}

\* C26: a rsp packet with transaction id t removes exactly the pending requests
\* with tid t from the outbound queue and leaves the queued responses with
\* that tid where they are; a release is queued iff the response handler,
\* called once with a removed request, returned true (the handlers of the
\* repository always do); with no pending request of tid t nothing changes.
C26_RspRemovesRequestsOnly ==
    [][(ev'.op = "recv" /\ ev'.arg[1] = "rsp") =>
         LET t == ev'.arg[2]
             pend == PendingByTid(rqueue, t)
         IN /\ rqueue' = Pop(rqueue, pend)
            /\ lqueue' = IF pend = {} THEN lqueue
                         ELSE Append(lqueue,
                                     Release(rqueue[CHOOSE pos \in pend :
                                                      \A other \in pend : pos <= other]))
    ]_vars

\* positions of the queued responses with tid t
ResponsesByTid(q, t) == {pos \in DeadByTid(q, t) : q[pos].kind = "rsp"}

\* C27: a rel packet with transaction id t removes exactly the queued
\* responses with tid t, and the release handler is called for those and no
\* others; the pending requests with tid t stay in the queue.
C27_RelRemovesResponsesOnly ==
    [][(ev'.op = "recv" /\ ev'.arg[1] = "rel") =>
         LET t == ev'.arg[2]
         IN /\ rqueue' = Pop(rqueue, ResponsesByTid(rqueue, t))
            /\ dispatch_rel(rqueue, t).released
                 = SelectSeq(rqueue, LAMBDA e : e.tid = t /\ e.kind = "rsp")
    ]_vars

\* the serial numbers of the requests of a queue that satisfy P
ReqSers(q, P(_)) == {q[pos].ser : pos \in {p \in 1..Len(q) : q[p].kind = "req" /\ P(q[p])}}

\* C28: a pass of the notification server's writer removes every queued
\* request older than MAX_AGE = 300 s without transmitting it, and removes no
\* request that is younger.
C28_MaxAge ==
    [][ev'.op = "writer" =>
         LET r == sender_pass(rqueue, lqueue, SRV_MAXAGE)
             old == ReqSers(rqueue, LAMBDA e : e.age > ATP_MAXAGE)
             young == ReqSers(rqueue, LAMBDA e : e.age <= ATP_MAXAGE)
         IN /\ old \cap ReqSers(rqueue', LAMBDA e : TRUE) = {}
            /\ old \cap ReqSers(r.sent, LAMBDA e : TRUE) = {}
            /\ young \subseteq ReqSers(rqueue', LAMBDA e : TRUE)
    ]_vars

\* what a completed pass of the writer does to the requests, but for the one
\* that is new: a request that stays pending is transmitted iff more than
\* RETRANS seconds have passed since its last transmission, a transmitted one
\* has that instant as its last use, and only queued requests are transmitted
PassSchedule ==
    LET r == sender_pass(rqueue, lqueue, ATP_MAXAGE)
        sent == ReqSers(r.sent, LAMBDA e : TRUE)
        kept == ReqSers(rqueue', LAMBDA e : TRUE)
    IN /\ \A pos \in 1..Len(rqueue) :
            (rqueue[pos].kind = "req" /\ ~rqueue[pos].fresh /\ rqueue[pos].ser \in kept)
              => (rqueue[pos].ser \in sent <=> rqueue[pos].idle > RETRANS)
       /\ sent \subseteq ReqSers(rqueue', LAMBDA e : e.idle = 0 /\ ~e.fresh)
       /\ sent \subseteq ReqSers(rqueue, LAMBDA e : TRUE)

\* C29: the retransmission schedule.  The first completed pass of the writer
\* after a request was queued transmits it; a request that stays pending is
\* retransmitted by a pass iff more than RETRANS seconds have passed since its
\* last transmission; a request that has left the queue never comes back, so
\* it is never transmitted again.
C29_RetransSchedule ==
    [][/\ (w_pc = "top" /\ w_pc' = "check") =>
            /\ ReqSers(rqueue, LAMBDA e : e.fresh)
                 \subseteq ReqSers(sender_pass(rqueue, lqueue, ATP_MAXAGE).sent,
                                   LAMBDA e : TRUE)
            /\ PassSchedule
       /\ \A n \in ReqSers(rqueue', LAMBDA e : TRUE) \ ReqSers(rqueue, LAMBDA e : TRUE) :
            n = nreq + 1
    ]_vars

\* C30: a release is queued only by the dispatch of a rsp packet whose tid is
\* that of a pending request of this transport, and then exactly one release,
\* for that tid, is queued; a rsp for a tid with no pending request (a
\* duplicate, or a tid that was never requested) queues none.
C30_ReleaseOnlyAfterRsp ==
    [][lqueue' # lqueue =>
         \/ lqueue' = <<>>
         \/ /\ ev'.op = "recv" /\ ev'.arg[1] = "rsp"
            /\ PendingByTid(rqueue, ev'.arg[2]) # {}
            /\ Len(lqueue') = Len(lqueue) + 1
            /\ SubSeq(lqueue', 1, Len(lqueue)) = lqueue
            /\ lqueue'[Len(lqueue')].tid = ev'.arg[2]
    ]_vars

\* the step queued a new request
Enqueued ==
    /\ nreq' = nreq + 1
    /\ Len(rqueue') = Len(rqueue) + 1
    /\ rqueue'[Len(rqueue')].ser = nreq'
    /\ rqueue'[Len(rqueue')].kind = "req"

\* C31: an enqueue gives the new request the current value of the counter as
\* its tid and advances the counter by 1 modulo 2^16 in the same step; the
\* counter changes in no other step, so consecutive enqueues get consecutive
\* tids and no two get the same one, and 65535 is followed by 0.
C31_TidCounter ==
    [][/\ Enqueued => /\ rqueue' = Append(rqueue, rqueue'[Len(rqueue')])
                      /\ rqueue'[Len(rqueue')].tid = tid
                      /\ tid' = (tid + 1) % TID_MOD
                      /\ tid' \in 0..(TID_MOD - 1)
                      /\ (tid = TID_MOD - 1 => tid' = 0)
                      /\ \A pos \in 1..Len(rqueue) :
                            rqueue[pos].kind = "req" => rqueue[pos].tid # tid
       /\ tid' # tid => Enqueued
    ]_vars

\* two requests were enqueued across the wrap of the counter
C31_Witness ==
    /\ tid = 1
    /\ \E p, q \in 1..Len(rqueue) :
          /\ rqueue[p].kind = "req" /\ rqueue[p].tid = TID_MOD - 1
          /\ rqueue[q].kind = "req" /\ rqueue[q].tid = 0

\* the requests of a queue are in the order of their enqueue, and those not
\* yet transmitted come after those that were
InOrder(q) ==
    \A p, r \in 1..Len(q) :
        (p < r /\ q[p].kind = "req" /\ q[r].kind = "req")
          => (q[p].ser < q[r].ser /\ (q[p].fresh => q[r].fresh))

\* C32: requests are first transmitted in the order of their enqueue.  In
\* every state no request has been transmitted while one enqueued before it
\* waits for its first transmission, and a pass of the writer sends the
\* requests it transmits for the first time in the order of their enqueue.
C32_NoReorder ==
    [][/\ InOrder(rqueue')
       /\ (w_pc = "top" /\ w_pc' = "check") =>
            InOrder(SelectSeq(sender_pass(rqueue, lqueue, ATP_MAXAGE).sent,
                              LAMBDA e : e.fresh))
    ]_vars

\* two requests are pending and both have been transmitted
C32_Witness ==
    \E p, r \in 1..Len(rqueue) :
        /\ p < r
        /\ rqueue[p].kind = "req" /\ rqueue[r].kind = "req"
        /\ ~rqueue[p].fresh /\ ~rqueue[r].fresh

\* C33: a pass of the reaper removes exactly the clients whose age exceeds the
\* maximum client age, the age being the time since the receive mark when the
\* send mark is not older than the receive mark and 0 otherwise; a client
\* whose receive mark is later than its send mark is kept.
C33_ReaperExact ==
    [][ev'.op = "write_poll" =>
         /\ clients' = SelectSeq(clients,
                           LAMBDA c : ~(c.smark >= c.rmark /\ now - c.rmark > SRV_MAXAGE))
         /\ \A pos \in 1..Len(clients) :
               clients[pos].rmark > clients[pos].smark
                 => \E kept \in 1..Len(clients') : clients'[kept] = clients[pos]
    ]_vars

\* a pass of the reaper has removed one client and kept another, which was
\* last heard of longer ago than the maximum age but after the last send
C33_Witness ==
    /\ ev.op = "write_poll"
    /\ ev.arg[1] > Len(clients)
    /\ \E pos \in 1..Len(clients) :
          /\ clients[pos].rmark > clients[pos].smark
          /\ now - clients[pos].rmark > SRV_MAXAGE

\* the client table holds an entry for uid whose age exceeds the maximum
Stale(uid) ==
    \E pos \in 1..Len(clients) :
        clients[pos].uid = uid /\ client_age(clients[pos], now) > SRV_MAXAGE

\* C34: the reaper is periodic: while the server runs, a client whose age has
\* grown beyond the maximum client age is eventually removed from the table,
\* whether or not anything is posted or received.
C34_ReaperPeriodic ==
    \A uid \in ClientUids : (Stale(uid) /\ is_running) ~> (~Stale(uid) \/ ~is_running)

\* C35: a rsp or rel packet received from the address of a registered client
\* advances the receive mark of that client to the current time, whether or
\* not the packet matches a queue element, and leaves the other clients as
\* they are.
C35_RecvMarksSender ==
    [][ev'.op \in {"rsp", "rel"} =>
         clients' = [pos \in 1..Len(clients) |->
                       IF client_addr(clients[pos]) = <<TheIp, ev'.arg[2]>>
                       THEN recvmark(clients[pos], now) ELSE clients[pos]]
    ]_vars

\* C36: a Notify request whose transaction the client has already answered,
\* the response still waiting in the queue for the server's release, is a
\* retransmission: it is answered again, and the notification queue is left
\* as it is.
C36_DeliveredOnce ==
    [][(/\ ev'.op = "req" /\ ev'.arg[2] = "NOTI"
        /\ \E pos \in 1..Len(rqueue) :
              /\ rqueue[pos].kind = "rsp" /\ rqueue[pos].tid = ev'.arg[1]
              /\ rqueue[pos].addr = NoteServer)
          => (nqueue' = nqueue /\ Len(rqueue') = Len(rqueue) + 1)
    ]_vars

\* C37: a PASE or PASS that is rejected, with 551 or with 501, leaves no
\* authenticated identity: LIST and broadcasts are not allowed in the state
\* that follows, whatever sign-on succeeded before.
C37_RejectedSignsOff ==
    [][(ev'.n # ev.n /\ ev'.op \in {"PASE", "PASS"} /\ ev'.reply \in {501, 551})
          => ~Allowed'
    ]_vars

\* no two entries of a client table are equal in (uid, ip, port)
NoDup(cl) == \A p, q \in 1..Len(cl) : p # q => ~client_eq(cl[p], cl[q])

\* C38: the client table never holds two entries equal in (uid, ip, port),
\* and the registration of a triple that is already in the table adds no
\* entry: it sets the receive mark of the entry that is there to the current
\* time and leaves the rest of the table as it is.
C38_NoDuplicateClients ==
    [][/\ NoDup(clients')
       /\ ev'.op = "add_client" =>
            LET pos == client_index(clients,
                                    Client(ev'.arg[1], TheIp, ev'.arg[2], {}))
            IN IF pos # 0
               THEN clients' = [clients EXCEPT ![pos] = recvmark(clients[pos], now)]
               ELSE Len(clients') = Len(clients) + 1
    ]_vars

\* a client that was registered earlier has just been registered again
C38_Witness ==
    /\ ev.op = "add_client"
    /\ Len(clients) = 2
    /\ \E pos \in 1..Len(clients) :
          /\ clients[pos].uid = ev.arg[1] /\ clients[pos].port = ev.arg[2]
          /\ clients[pos].rmark = now /\ clients[pos].smark < now

WindowOf(c, body) ==
    c = <<>> \/ (c[1] + Len(c[2]) <= Len(body) /\ c[2] = PySlice(body, c[1], c[1] + Len(c[2])))

\* C40: the body cache is empty or a pair (offset, data) whose data is the
\* bytes [offset, offset + len(data)) of the body on the server; a get_body
\* call with an offset and a length only widens the cached window and returns
\* the bytes [offset, offset + length) asked for (with '\r' as '\n'); after
\* delete_body and after move_to the cache is empty.
C40_BodyCache ==
    [][/\ WindowOf(b_cache', srv_body')
       /\ (ev'.op = "get_body" /\ ev'.arg[1] # None /\ ev'.arg[2] # None)
            => /\ b_out' = replace_cr(PySlice(srv_body, ev'.arg[1], ev'.arg[1] + ev'.arg[2]))
               /\ (b_cache # <<>> /\ ~ev'.seq)
                     => /\ b_cache' # <<>>
                        /\ b_cache'[1] <= b_cache[1]
                        /\ b_cache'[1] + Len(b_cache'[2]) >= b_cache[1] + Len(b_cache[2])
       /\ ev'.op \in {"delete_body", "move_to"} => b_cache' = <<>>
      ]_vars

==============================================================================
